---- MODULE Spec2Model ----
(***************************************************************************)
(* A model of wincurses (src/wincurses.c, src/wincurses.h): the default    *)
(* window 'stdscr', its two console screen buffers, the refresh protocol   *)
(* and the output writer.  The Windows console is modelled by what its     *)
(* calls do to a screen buffer: a rectangle of cells, clipped to the       *)
(* buffer and to the caller's array.                                       *)
(***************************************************************************)
EXTENDS Integers, Sequences, FiniteSets, TLC

(***************************************************************************)
(* Bounds of the model.                                                    *)
(***************************************************************************)
MaxCells == 4
MaxOrigin == 1
MaxText == 2
MaxOps == 3
MaxQueue == 2
ScenarioOps == 5

(***************************************************************************)
(* Program constants.                                                      *)
(***************************************************************************)
ERR == 0
OK == 1
NUM_COLORS == 8
COLOR_BITS == 6
MAX_NUM_PAIRS == 64
WC_BGND == 32
CR == 13
NL == 10
WC_ECHO == 1
WC_COLOR == 2
WC_WKEYPAD == 1
WC_NODELAY == 2
A_BOLD == 4
A_REVERSE == 64
A_STANDOUT == 128
A_UNDERLINE == 256
CAN_CHANGE_COLOR == 0
HAS_COLORS == 1
COLOR_BLACK == 0
COLOR_GREEN == 2
COLOR_RED == 4
COLOR_WHITE == 7
KEY_EXIT == 361
KEY_EVENT == 1
VK_ESCAPE == 27
ENABLE_PROCESSED_INPUT == 1
ENABLE_LINE_INPUT == 2

(* Key codes (keycode_t) *)
KEY_DOWN == 258
KEY_UP == 259
KEY_LEFT == 260
KEY_RIGHT == 261
KEY_HOME == 262
KEY_BACKSPACE == 263
KEY_F0 == 264
KEY_DC == 330
KEY_IC == 331
KEY_CLEAR == 333
KEY_NPAGE == 338
KEY_PPAGE == 339
KEY_ENTER == 343
KEY_PRINT == 346
KEY_A1 == 348
KEY_A3 == 349
KEY_B2 == 350
KEY_C1 == 351
KEY_C3 == 352
KEY_CANCEL == 355
KEY_COMMAND == 357
KEY_END == 360
KEY_HELP == 363
KEY_SELECT == 385

(* Virtual key codes (winuser.h) of the keys wgetch translates *)
VK_CANCEL == 3
VK_BACK == 8
VK_CLEAR == 12
VK_RETURN == 13
VK_CONTROL == 17
VK_PRIOR == 33
VK_NEXT == 34
VK_END == 35
VK_HOME == 36
VK_LEFT == 37
VK_UP == 38
VK_RIGHT == 39
VK_DOWN == 40
VK_SELECT == 41
VK_PRINT == 42
VK_DELETE == 46
VK_INSERT == VK_DELETE - 1
VK_HELP == 47
VK_NUMPAD1 == 97
VK_NUMPAD2 == 98
VK_NUMPAD3 == 99
VK_NUMPAD4 == 100
VK_NUMPAD5 == 101
VK_NUMPAD6 == 102
VK_NUMPAD7 == 103
VK_NUMPAD8 == 104
VK_NUMPAD9 == 105
VK_F1 == 112
VK_F2 == 113
VK_F3 == 114
VK_F4 == 115
VK_F5 == 116
VK_F6 == 117
VK_F7 == 118
VK_F8 == 119
VK_F9 == 120
VK_F10 == 121
VK_F11 == 122
VK_F12 == 123
VK_F13 == 124
VK_F14 == 125
VK_F15 == 126
VK_F16 == 127
VK_F17 == 128
VK_F18 == 129
VK_F19 == 130
VK_F20 == 131
VK_F21 == 132
VK_F22 == 133
VK_F23 == 134
VK_F24 == 135

(* Windows console attribute bits (wincon.h), used by getattrs. *)
FOREGROUND_BLUE == 1
FOREGROUND_GREEN == 2
FOREGROUND_RED == 4
FOREGROUND_INTENSITY == 8
BACKGROUND_INTENSITY == 128
COMMON_LVB_REVERSE_VIDEO == 16384
COMMON_LVB_UNDERSCORE == 32768

(* The characters the model writes: two ordinary ones and the two the
   writer treats specially. *)
OrdinaryChars == {97, 98}
AddchInputs == {97, CR, NL}

VARIABLES
  win,          \* *stdscr: rect, size, cur, prim, bbuf, flags, attrs
  held,         \* a WINDOW the caller holds besides stdscr
  caller,       \* the caller's own variables that calls are made with
  inq,          \* the console's input buffer: the events not yet read
  pc,           \* "idle" between calls, "wgetch" inside wgetch's loop
  scr,          \* the two console screen buffers behind win.hcon[0], win.hcon[1]
  active,       \* the screen buffer the console displays: 0, 1 or hstdout
  flags,        \* global program flags
  colors,       \* colors[NUM_COLORS]: the entries assigned so far
  color_pairs,  \* color_pairs[MAX_NUM_PAIRS]: the entries assigned so far
  lastOp,       \* the entry point that ran last
  ret,          \* its return value
  latest,       \* history: per cell, what was written to it last since initscr
  nops,         \* number of calls made so far
  cursize,      \* the cursor size initscr saved
  curinfo,      \* per screen buffer, its CONSOLE_CURSOR_INFO
  conmode,      \* the mode of the console's input buffer
  closed,       \* per screen buffer, how often its handle was closed
  temps,        \* temporary buffers allocated and not freed
  startmode     \* the mode of the console's input buffer before initscr

vars == <<win, held, caller, inq, pc, scr, active, flags, colors, color_pairs, lastOp, ret,
          latest, nops, cursize, curinfo, conmode, closed, temps, startmode>>

(***************************************************************************)
(* Integer helpers.  A 32-bit word is the int with its bit pattern.         *)
(***************************************************************************)
Min(a, b) == IF a < b THEN a ELSE b

(* Bitwise and, or on ints in two's complement: a = 2 * (a \div 2) + a % 2
   down to 0 (no bit set) or -1 (every bit set). *)
RECURSIVE BitAnd(_, _)
BitAnd(a, b) ==
  IF a = 0 \/ b = 0 THEN 0
  ELSE IF a = 0 - 1 THEN b
  ELSE IF b = 0 - 1 THEN a
  ELSE (IF a % 2 = 1 /\ b % 2 = 1 THEN 1 ELSE 0) + 2 * BitAnd(a \div 2, b \div 2)

RECURSIVE BitOr(_, _)
BitOr(a, b) ==
  IF a = 0 THEN b
  ELSE IF b = 0 THEN a
  ELSE IF a = 0 - 1 \/ b = 0 - 1 THEN 0 - 1
  ELSE (IF a % 2 = 1 \/ b % 2 = 1 THEN 1 ELSE 0) + 2 * BitOr(a \div 2, b \div 2)

(* a & ~b on a 16-bit WORD *)
BitClear(a, b) == a - BitAnd(a, b)

(* Mutant for C5: the index is assigned without being negated *)
LNot_Dropped(x) == x

(* C's logical not, as used on the buffer indices *)
LNot(x) == IF x = 0 THEN 1 ELSE 0

(***************************************************************************)
(* The console backend: screen buffers and rectangles of cells.            *)
(* A screen buffer is [dwSize, cell, cursor]; cell maps <<row, col>> to    *)
(* [ch, attr].  A SMALL_RECT is [Left, Top, Right, Bottom], inclusive.     *)
(***************************************************************************)
Cells(size) == (0 .. size.Y - 1) \X (0 .. size.X - 1)

InRect(p, r) ==
  /\ r.Top <= p[1] /\ p[1] <= r.Bottom
  /\ r.Left <= p[2] /\ p[2] <= r.Right

(* The rectangle a bulk read or write really uses: the requested region cut
   to the screen buffer and to what the caller's array holds from 'orig'. *)
ClipRegion(dwSize, bsize, orig, region) ==
  [Left   |-> region.Left,
   Top    |-> region.Top,
   Right  |-> Min(Min(region.Right, region.Left + (bsize.X - orig.X) - 1), dwSize.X - 1),
   Bottom |-> Min(Min(region.Bottom, region.Top + (bsize.Y - orig.Y) - 1), dwSize.Y - 1)]

(* A value of the caller's array that no call has filled *)
Uninit == [ch |-> -1, attr |-> -1]

(* ReadConsoleOutput(h, tbuf, bsize, orig, &region) *)
ReadConsoleOutput(sb, bsize, orig, region) ==
  LET used == ClipRegion(sb.dwSize, bsize, orig, region)
  IN  [tbuf   |-> [i \in Cells(bsize) |->
                     LET p == <<used.Top + i[1] - orig.Y, used.Left + i[2] - orig.X>>
                     IN  IF i[1] >= orig.Y /\ i[2] >= orig.X /\ InRect(p, used)
                         THEN sb.cell[p] ELSE Uninit],
       region |-> used]

(* WriteConsoleOutput(h, tbuf, bsize, orig, &region) *)
WriteConsoleOutput(sb, tbuf, bsize, orig, region) ==
  LET used == ClipRegion(sb.dwSize, bsize, orig, region)
  IN  [sb     |-> [sb EXCEPT !.cell =
                     [p \in DOMAIN sb.cell |->
                        IF InRect(p, used)
                        THEN tbuf[<<orig.Y + p[1] - used.Top, orig.X + p[2] - used.Left>>]
                        ELSE sb.cell[p]]],
       region |-> used]

(* SetConsoleCursorPosition: fails, changing nothing, outside the buffer *)
SetConsoleCursorPosition(sb, pos) ==
  IF pos.Y < sb.dwSize.Y /\ pos.X < sb.dwSize.X /\ pos.Y >= 0 /\ pos.X >= 0
  THEN [sb EXCEPT !.cursor = pos]
  ELSE sb

(* Mutant for C33: the buffers are created and never cleared *)
NewScreenBuffer_Uncleared(size) ==
  [dwSize |-> size,
   cell   |-> [p \in Cells(size) |->
                 [ch |-> 0, attr |-> FOREGROUND_RED + FOREGROUND_GREEN + FOREGROUND_BLUE]],
   cursor |-> [X |-> 0, Y |-> 0]]

(* CreateConsoleScreenBuffer, SetConsoleScreenBufferSize and cls *)
NewScreenBuffer(size) ==
  [dwSize |-> size,
   cell   |-> [p \in Cells(size) |->
                 [ch |-> WC_BGND,
                  attr |-> FOREGROUND_RED + FOREGROUND_GREEN + FOREGROUND_BLUE]],
   cursor |-> [X |-> 0, Y |-> 0]]

(***************************************************************************)
(* Attributes.                                                             *)
(***************************************************************************)
(* n << (32 - COLOR_BITS) in a 32-bit int: the low COLOR_BITS bits of n
   become the top bits of the word, the topmost of them its sign. *)
COLOR_PAIR(n) ==
  LET low == n % 2^COLOR_BITS
  IN  (IF low >= 2^(COLOR_BITS - 1) THEN low - 2^COLOR_BITS ELSE low) * 2^(32 - COLOR_BITS)

(* A_COLOR_DATA(value), value >> (32 - COLOR_BITS) on an int: an
   arithmetic shift, which keeps the sign *)
PAIR_NUMBER(value) == value \div 2^(32 - COLOR_BITS)

(* The arrays are static, so an entry no call has assigned is zero. *)
ColorIn(cols, c) == IF c \in DOMAIN cols THEN cols[c] ELSE [r |-> 0, g |-> 0, b |-> 0]

PairIn(prs, p) == IF p \in DOMAIN prs THEN prs[p] ELSE [f |-> 0, b |-> 0]

ColorAt(c) == ColorIn(colors, c)

PairAt(p) == PairIn(color_pairs, p)

(* The style bits of getattrs' mask *)
StyleMask(attrs) ==
  BitOr(BitOr(IF BitAnd(attrs, A_BOLD) # 0 THEN FOREGROUND_INTENSITY ELSE 0,
              IF BitAnd(attrs, A_REVERSE) # 0 THEN COMMON_LVB_REVERSE_VIDEO ELSE 0),
        BitOr(IF BitAnd(attrs, A_STANDOUT) # 0 THEN BACKGROUND_INTENSITY ELSE 0,
              IF BitAnd(attrs, A_UNDERLINE) # 0 THEN COMMON_LVB_UNDERSCORE ELSE 0))

(* getattrs on given flags and tables, for a word whose pair number indexes
   inside color_pairs and whose pair's colours index inside colors *)
getattrs_on(attrs, fl, cols, prs) ==
  LET pair == PairIn(prs, PAIR_NUMBER(attrs))
      mask(c) == (IF ColorIn(cols, c).r = 0 THEN 0 ELSE FOREGROUND_RED)
               + (IF ColorIn(cols, c).g = 0 THEN 0 ELSE FOREGROUND_GREEN)
               + (IF ColorIn(cols, c).b = 0 THEN 0 ELSE FOREGROUND_BLUE)
  IN  IF BitAnd(fl, WC_COLOR) # 0 /\ CAN_CHANGE_COLOR = 0
      THEN BitOr(BitOr(StyleMask(attrs), mask(pair.f)), 16 * mask(pair.b))
      ELSE StyleMask(attrs)

getattrs(attrs) == getattrs_on(attrs, flags, colors, color_pairs)

(* Do getattrs' array reads stay inside color_pairs and colors? *)
ReadsInBounds(attrs) ==
  \/ BitAnd(flags, WC_COLOR) = 0
  \/ /\ PAIR_NUMBER(attrs) \in 0 .. MAX_NUM_PAIRS - 1
     /\ PairAt(PAIR_NUMBER(attrs)).f \in 0 .. NUM_COLORS - 1
     /\ PairAt(PAIR_NUMBER(attrs)).b \in 0 .. NUM_COLORS - 1

(* The masks getattrs can return: one when its reads are in bounds; when
   they are not, the colour bits come from whatever lies outside the arrays
   and can be any. *)
GetattrsResults(attrs) ==
  IF ReadsInBounds(attrs) THEN {getattrs(attrs)}
  ELSE { BitOr(StyleMask(attrs), fg + 16 * bg) : fg \in 0 .. 7, bg \in 0 .. 7 }

(* The three take getattrs' result as bmask *)
wattron(w, bmask) == [w EXCEPT !.attrs = BitOr(@, bmask)]

wattroff(w, bmask) == [w EXCEPT !.attrs = BitClear(@, bmask)]

(* Mutant for C25: the new style is dropped *)
wattrset_Dropped(w, bmask) == w

wattrset(w, bmask) == [w EXCEPT !.attrs = bmask]

(***************************************************************************)
(* The window model and the output writer, as functions of the window and  *)
(* the screen buffers.                                                     *)
(***************************************************************************)
(* Mutant for C1: the upper bounds tested with > instead of >= *)
wmove_BoundsOffByOne(w, y, x) ==
  IF y > w.size.Y \/ x > w.size.X \/ y < 0 \/ x < 0
  THEN [win |-> w, ret |-> ERR]
  ELSE [win |-> [w EXCEPT !.cur = [X |-> x, Y |-> y]], ret |-> OK]

wmove(w, y, x) ==
  IF y >= w.size.Y \/ x >= w.size.X \/ y < 0 \/ x < 0
  THEN [win |-> w, ret |-> ERR]
  ELSE [win |-> [w EXCEPT !.cur = [X |-> x, Y |-> y]], ret |-> OK]

(* Mutant for C7: the character goes to the buffer on display *)
WriteTarget_Primary(w) == w.prim

(* win->hcon[win->bbuf]: the buffer waddch writes *)
WriteTarget(w) == w.bbuf

(* Mutant for C10: the carriage return also starts a new line *)
CarriageReturn_NewLine(w) == [w EXCEPT !.cur = [X |-> 0, Y |-> w.cur.Y + 1]]

(* case '\r' *)
CarriageReturn(w) == [w EXCEPT !.cur.X = 0]

(* Mutant for C9: the newline keeps the column *)
Newline_KeepsColumn(w) == [w EXCEPT !.cur.Y = w.cur.Y + 1]

(* case '\n' *)
Newline(w) == [w EXCEPT !.cur = [X |-> 0, Y |-> w.cur.Y + 1]]

(* Mutant for C8: the wrap happens one column late *)
Advance_WrapsLate(w) ==
  LET nx == (w.cur.X + 1) % (w.size.X + 1)
  IN  [w EXCEPT !.cur = [X |-> nx, Y |-> IF nx = 0 THEN w.cur.Y + 1 ELSE w.cur.Y]]

(* Advance the cursor and check for line wrap *)
Advance(w) ==
  LET nx == (w.cur.X + 1) % w.size.X
  IN  [w EXCEPT !.cur = [X |-> nx, Y |-> IF nx = 0 THEN w.cur.Y + 1 ELSE w.cur.Y]]

(* Mutant for C11: a failed write still advances the cursor *)
waddch_FailAdvances(w, sb, ch, ok) ==
  CASE ch = CR -> [win |-> CarriageReturn(w), scr |-> sb, ret |-> OK]
    [] ch = NL -> [win |-> Newline(w), scr |-> sb, ret |-> OK]
    [] OTHER -> [win |-> Advance(w), scr |-> sb, ret |-> IF ok THEN OK ELSE ERR]

(* 'ok' is what the backend's cell write reports. *)
waddch(w, sb, ch, ok) ==
  LET size   == [X |-> 1, Y |-> 1]
      origin == [X |-> 0, Y |-> 0]
      rect   == [Top |-> w.cur.Y, Bottom |-> w.cur.Y + size.Y,
                 Left |-> w.cur.X, Right |-> w.cur.X + size.X]
      c      == [i \in Cells(size) |-> [ch |-> ch, attr |-> w.attrs]]
  IN  CASE ch = CR -> [win |-> CarriageReturn(w), scr |-> sb, ret |-> OK]
        [] ch = NL -> [win |-> Newline(w), scr |-> sb, ret |-> OK]
        [] OTHER ->
             IF ~ok
             THEN [win |-> w, scr |-> sb, ret |-> ERR]
             ELSE [win |-> Advance(w),
                   scr |-> [sb EXCEPT ![WriteTarget(w)] =
                              WriteConsoleOutput(@, c, size, origin, rect).sb],
                   ret |-> OK]

(* The loop of va_wprintw: s[n] through waddch until the end of the string
   or the first failure; the backend's write fails for the failAt-th
   character and for no other (failAt = 0: every write succeeds). *)
RECURSIVE PrintLoop(_, _, _, _, _)
PrintLoop(w, sb, s, n, failAt) ==
  IF n > Len(s) THEN [win |-> w, scr |-> sb, ret |-> OK]
  ELSE LET r == waddch(w, sb, s[n], n # failAt)
       IN  IF r.ret = OK THEN PrintLoop(r.win, r.scr, s, n + 1, failAt)
           ELSE [win |-> w, scr |-> sb, ret |-> ERR]

(* Mutant for C13: the terminator is not counted against the bound *)
va_wprintw_NoTerminator(w, sb, text, failAt) ==
  IF Len(text) > w.size.Y * w.size.X
  THEN [win |-> w, scr |-> sb, ret |-> ERR]
  ELSE [PrintLoop(w, sb, text, 1, failAt) EXCEPT !.ret = OK]

(* 'text' is what the format renders to; vsprintf_s needs room for it and
   its terminator in the Y*X bytes of the temporary. *)
va_wprintw(w, sb, text, failAt) ==
  IF Len(text) + 1 > w.size.Y * w.size.X
  THEN [win |-> w, scr |-> sb, ret |-> ERR]
  ELSE [PrintLoop(w, sb, text, 1, failAt) EXCEPT !.ret = OK]

(***************************************************************************)
(* initscr: the state when it returns.  The viewport the console reports   *)
(* is any rectangle within the bounds.  The window's flags are never       *)
(* assigned: each flag bit stays indeterminate until a call sets it, and   *)
(* a call that reads one finds either value there.                         *)
(***************************************************************************)
Viewports ==
  { [Left |-> o[1], Top |-> o[2], Right |-> o[1] + d[1] - 1, Bottom |-> o[2] + d[2] - 1] :
      o \in { o \in (0 .. MaxOrigin) \X (0 .. MaxOrigin) : o[1] + o[2] <= MaxOrigin },
      d \in { d \in (1 .. MaxCells) \X (1 .. MaxCells) : d[1] * d[2] <= MaxCells } }

(* A bit that has been allocated and never assigned *)
Indeterminate == "indeterminate"

(* The WINDOW initscr fills in for the viewport srWindow *)
NewWindow(srWindow) ==
  LET size == [X |-> srWindow.Right - srWindow.Left + 1,
               Y |-> srWindow.Bottom - srWindow.Top + 1]
  IN  [rect |-> srWindow, size |-> size, cur |-> [X |-> 0, Y |-> 0],
       prim |-> 0, bbuf |-> LNot(0),
       flags |-> [b \in {WC_WKEYPAD, WC_NODELAY} |-> Indeterminate],
       attrs |-> FOREGROUND_RED + FOREGROUND_GREEN + FOREGROUND_BLUE]

initscr(srWindow) ==
  /\ win = NewWindow(srWindow)
  /\ scr = [h \in {0, 1} |-> NewScreenBuffer(win.size)]
  /\ active = win.prim
  /\ latest = NewScreenBuffer(win.size)

(* The caller's variables: the pair number, colours and attribute word it
   last passed, and two shorts f and b whose addresses it hands to
   pair_content, set to a value no colour has before the call. *)
Unset == 0 - 1

CallerInit ==
  [pair |-> 0, fg |-> 0, bg |-> 0, word |-> 0, f |-> Unset, b |-> Unset, rwin |-> "stdscr",
   level |-> Unset]

Globals ==
  /\ flags = 0
  /\ colors = [c \in {} |-> [r |-> 0, g |-> 0, b |-> 0]]
  /\ color_pairs = [p \in {} |-> [f |-> 0, b |-> 0]]

(* The input mode of a console nobody has changed: lines are edited and
   control keys processed *)
CookedMode == ENABLE_LINE_INPUT + ENABLE_PROCESSED_INPUT

(* The program after initscr() has returned *)
Constructed ==
  /\ Globals
  /\ \E v \in Viewports : initscr(v)
  /\ held = win
  /\ caller = CallerInit
  /\ inq = <<>>
  /\ pc = "idle"
  /\ lastOp = "initscr"
  /\ ret = OK
  /\ conmode = 0
  /\ closed = [h \in {0, 1} |-> 0]
  /\ temps = 0
  /\ startmode = CookedMode

(* The cursor initscr finds: cursize is the cursor size of the console's
   own screen buffer; the two buffers it creates have the console's
   default cursor, visible and of the size s *)
CursorIs(c, s) ==
  /\ cursize = c
  /\ curinfo = [h \in {0, 1} |-> [dwSize |-> s, bVisible |-> TRUE]]

DefaultCursorSize == 25

Init == Constructed /\ CursorIs(DefaultCursorSize, DefaultCursorSize) /\ nops = 0

(* The console's own screen buffer, displayed before initscr: the handle
   initscr saves.  The window's two buffers are 0 and 1. *)
hstdout == 2

(* The null pointer *)
NULL == "NULL"

(***************************************************************************)
(* initscr as a call.  Before it stdscr is NULL, the console displays its  *)
(* own buffer and its input mode is the cooked one.  Each backend call     *)
(* whose result initscr tests either succeeds or fails; the first failure  *)
(* ends the process with exit(1).                                          *)
(***************************************************************************)
InitSteps ==
  <<"malloc", "GetConsoleScreenBufferInfo", "CreateConsoleScreenBuffer prim",
    "CreateConsoleScreenBuffer bbuf", "SetConsoleScreenBufferSize prim",
    "SetConsoleScreenBufferSize bbuf", "GetStdHandle STD_OUTPUT_HANDLE",
    "GetStdHandle STD_INPUT_HANDLE", "SetConsoleMode", "SetConsoleActiveScreenBuffer">>

(* The position in InitSteps of the call named s *)
StepOf(s) == CHOOSE i \in 1 .. Len(InitSteps) : InitSteps[i] = s

(* No call of initscr fails *)
NoFailure == 0

(* stdscr before initscr: no WINDOW has been allocated *)
NoWindow == [allocated |-> FALSE]

Start ==
  /\ Globals
  /\ win = NoWindow
  /\ held = NoWindow
  /\ scr = <<>>
  /\ latest = <<>>
  /\ active = hstdout
  /\ caller = CallerInit
  /\ inq = <<>>
  /\ pc = "start"
  /\ lastOp = "none"
  /\ ret = OK
  /\ conmode = CookedMode
  /\ startmode = CookedMode
  /\ closed = [h \in {0, 1} |-> 0]
  /\ temps = 0
  /\ cursize = 0
  /\ curinfo = <<>>
  /\ nops = 0

(* initscr() on a console reporting the viewport srWindow, where the call
   InitSteps[failAt] is the first to fail, or none is *)
initscr_call(srWindow, failAt) ==
  /\ pc = "start"
  /\ IF failAt = NoFailure
     THEN /\ win' = NewWindow(srWindow)
          /\ held' = win'
          /\ scr' = [h \in {0, 1} |-> NewScreenBuffer(win'.size)]
          /\ latest' = NewScreenBuffer(win'.size)
          /\ cursize' = DefaultCursorSize
          /\ curinfo' = [h \in {0, 1} |-> [dwSize |-> DefaultCursorSize, bVisible |-> TRUE]]
          /\ conmode' = 0
          /\ active' = win'.prim
          /\ pc' = "idle"
          /\ lastOp' = "initscr"
          /\ ret' = OK
          /\ UNCHANGED <<closed, temps, startmode, inq, caller, flags, colors, color_pairs, nops>>
     ELSE /\ pc' = "exited"
          /\ lastOp' = "initscr"
          /\ conmode' = IF failAt > StepOf("SetConsoleMode") THEN 0 ELSE conmode
          /\ UNCHANGED <<closed, temps, startmode, cursize, curinfo, inq, caller, win, held, scr,
                         active, flags, colors, color_pairs, latest, nops, ret>>

(***************************************************************************)
(* The history variable: the same writes, made to one buffer that is       *)
(* always the target.                                                      *)
(***************************************************************************)
Ghost == [h \in {0, 1} |-> latest]

Called(name, r) ==
  /\ pc = "idle"
  /\ nops < MaxOps
  /\ nops' = nops + 1
  /\ lastOp' = name
  /\ ret' = r

(***************************************************************************)
(* The entry points, on stdscr.                                            *)
(***************************************************************************)
move(y, x) ==
  LET r == wmove(win, y, x)
  IN  /\ Called("move", r.ret)
      /\ win' = r.win
      /\ UNCHANGED <<closed, temps, startmode, cursize, curinfo, conmode, inq, pc, caller, held, scr, active, flags, colors, color_pairs, latest>>

addch(ch, ok) ==
  LET r == waddch(win, scr, ch, ok)
  IN  /\ Called("addch", r.ret)
      /\ win' = r.win
      /\ scr' = r.scr
      /\ latest' = waddch(win, Ghost, ch, ok).scr[WriteTarget(win)]
      /\ UNCHANGED <<closed, temps, startmode, cursize, curinfo, conmode, inq, pc, caller, held, active, flags, colors, color_pairs>>

(* The temporary buffers outstanding after refresh: it allocates tbuf and
   frees it before it returns *)
refresh_allocs(t) == (t + 1) - 1

refresh ==
  LET size == [X |-> win.size.X, Y |-> win.size.Y]
      orig == [X |-> 0, Y |-> 0]
      shown == SetConsoleCursorPosition(scr[win.bbuf], win.cur)
      rd   == ReadConsoleOutput(shown, size, orig, win.rect)
      wr   == WriteConsoleOutput(scr[win.prim], rd.tbuf, size, orig, rd.region)
      np   == LNot(win.prim)
  IN  /\ Called("refresh", OK)
      /\ active' = win.bbuf
      /\ scr' = [scr EXCEPT ![win.bbuf] = shown, ![win.prim] = wr.sb]
      /\ win' = [win EXCEPT !.rect = wr.region, !.prim = np, !.bbuf = LNot(np)]
      /\ temps' = refresh_allocs(temps)
      /\ UNCHANGED <<closed, startmode, cursize, curinfo, conmode, inq, pc, caller, held, flags, colors, color_pairs, latest>>

(* The temporary buffers outstanding after va_wprintw: it allocates s and
   returns, with ERR or with OK, without freeing it *)
va_wprintw_allocs(t) == t + 1

printw(text, failAt) ==
  LET r == va_wprintw(win, scr, text, failAt)
  IN  /\ Called("printw", r.ret)
      /\ win' = r.win
      /\ scr' = r.scr
      /\ latest' = va_wprintw(win, Ghost, text, failAt).scr[WriteTarget(win)]
      /\ temps' = va_wprintw_allocs(temps)
      /\ UNCHANGED <<closed, startmode, cursize, curinfo, conmode, inq, pc, caller, held, active, flags, colors, color_pairs>>

mvprintw(y, x, text, failAt) ==
  LET oldcur == win.cur
      m == wmove(win, y, x)
      r == va_wprintw(m.win, scr, text, failAt)
  IN  /\ Called("mvprintw", r.ret)
      /\ win' = IF r.ret = ERR THEN [r.win EXCEPT !.cur = oldcur] ELSE r.win
      /\ scr' = r.scr
      /\ latest' = va_wprintw(m.win, Ghost, text, failAt).scr[WriteTarget(win)]
      /\ temps' = va_wprintw_allocs(temps)
      /\ UNCHANGED <<closed, startmode, cursize, curinfo, conmode, inq, pc, caller, held, active, flags, colors, color_pairs>>

attron(attrs) ==
  /\ Called("attron", OK)
  /\ \E bmask \in GetattrsResults(attrs) : win' = wattron(win, bmask)
  /\ UNCHANGED <<closed, temps, startmode, cursize, curinfo, conmode, inq, pc, caller, held, scr, active, flags, colors, color_pairs, latest>>

attroff(attrs) ==
  /\ Called("attroff", OK)
  /\ \E bmask \in GetattrsResults(attrs) : win' = wattroff(win, bmask)
  /\ UNCHANGED <<closed, temps, startmode, cursize, curinfo, conmode, inq, pc, caller, held, scr, active, flags, colors, color_pairs, latest>>

(* A caller's loop of addch over a string of ordinary characters, every
   backend write succeeding. *)
RECURSIVE AddChars(_, _, _, _)
AddChars(w, sb, s, n) ==
  IF n > Len(s) THEN [win |-> w, scr |-> sb, ret |-> OK]
  ELSE LET r == waddch(w, sb, s[n], TRUE)
       IN  AddChars(r.win, r.scr, s, n + 1)

addchs(s) ==
  LET r == AddChars(win, scr, s, 1)
  IN  /\ Called("addchs", r.ret)
      /\ win' = r.win
      /\ scr' = r.scr
      /\ latest' = AddChars(win, Ghost, s, 1).scr[WriteTarget(win)]
      /\ UNCHANGED <<closed, temps, startmode, cursize, curinfo, conmode, inq, pc, caller, held, active, flags, colors, color_pairs>>

(* Mutant for C31: the primary buffer's handle is closed twice *)
ClosedHandles_PrimaryTwice(w) == <<w.prim, w.prim>>

(* The handles endwin closes, in order *)
ClosedHandles(w) == <<w.prim, w.bbuf>>

(* endwin: the saved buffer is displayed again, both handles are closed and
   stdscr is freed; the session is over *)
endwin ==
  LET hs == ClosedHandles(win)
  IN  /\ Called("endwin", OK)
      /\ pc' = "ended"
      /\ active' = hstdout
      /\ closed' = [h \in {0, 1} |->
                      closed[h] + (IF hs[1] = h THEN 1 ELSE 0) + (IF hs[2] = h THEN 1 ELSE 0)]
      /\ UNCHANGED <<temps, startmode, cursize, curinfo, conmode, inq, caller, win, held, scr,
                     flags, colors, color_pairs, latest>>

(***************************************************************************)
(* The entry points that take a WINDOW *.  The caller's pointer is NULL,   *)
(* stdscr, or the window it holds itself, a WINDOW with the fields stdscr  *)
(* had when initscr returned.                                              *)
(***************************************************************************)
WindowPtrs == {"stdscr", "held"}

Deref(p) == IF p = "stdscr" THEN win ELSE held

(* *p = w, the other window staying as it is *)
Assign(p, w) ==
  IF p = "stdscr" THEN win' = w /\ held' = held
  ELSE held' = w /\ win' = win

(* waddch(p, ch), from its NULL check on *)
waddch_call(p, ch, ok) ==
  IF p = NULL
  THEN /\ Called("waddch", ERR)
       /\ UNCHANGED <<closed, temps, startmode, cursize, curinfo, conmode, inq, pc, caller, win, held, scr, active, flags, colors, color_pairs, latest>>
  ELSE LET r == waddch(Deref(p), scr, ch, ok)
       IN  /\ Called("waddch", r.ret)
           /\ Assign(p, r.win)
           /\ scr' = r.scr
           /\ latest' = waddch(Deref(p), Ghost, ch, ok).scr[WriteTarget(Deref(p))]
           /\ UNCHANGED <<closed, temps, startmode, cursize, curinfo, conmode, inq, pc, caller, active, flags, colors, color_pairs>>

wprintw(p, text, failAt) ==
  IF p = NULL
  THEN /\ Called("wprintw", ERR)
       /\ UNCHANGED <<closed, temps, startmode, cursize, curinfo, conmode, inq, pc, caller, win, held, scr, active, flags, colors, color_pairs, latest>>
  ELSE LET r == va_wprintw(Deref(p), scr, text, failAt)
       IN  /\ Called("wprintw", r.ret)
           /\ Assign(p, r.win)
           /\ scr' = r.scr
           /\ latest' = va_wprintw(Deref(p), Ghost, text, failAt).scr[WriteTarget(Deref(p))]
           /\ temps' = va_wprintw_allocs(temps)
           /\ UNCHANGED <<closed, startmode, cursize, curinfo, conmode, inq, pc, caller, active, flags, colors, color_pairs>>

mvwprintw(p, y, x, text, failAt) ==
  IF p = NULL
  THEN /\ Called("mvwprintw", ERR)
       /\ UNCHANGED <<closed, temps, startmode, cursize, curinfo, conmode, inq, pc, caller, win, held, scr, active, flags, colors, color_pairs, latest>>
  ELSE LET oldcur == win.cur
           m == wmove(Deref(p), y, x)
           r == va_wprintw(m.win, scr, text, failAt)
           restored(w) == IF r.ret = ERR THEN [w EXCEPT !.cur = oldcur] ELSE w
       IN  /\ Called("mvwprintw", r.ret)
           /\ IF p = "stdscr"
              THEN win' = restored(r.win) /\ held' = held
              ELSE held' = r.win /\ win' = restored(win)
           /\ scr' = r.scr
           /\ latest' = va_wprintw(m.win, Ghost, text, failAt).scr[WriteTarget(Deref(p))]
           /\ temps' = va_wprintw_allocs(temps)
           /\ UNCHANGED <<closed, startmode, cursize, curinfo, conmode, inq, pc, caller, active, flags, colors, color_pairs>>

(***************************************************************************)
(* The colour calls.  has_colors() returns HAS_COLORS after setting COLORS *)
(* and COLOR_PAIRS to NUM_COLORS and MAX_NUM_PAIRS, so the comparisons     *)
(* that follow it see these two values.                                    *)
(***************************************************************************)
(* The eight colours start_color assigns: blue, green and red are bits 0,
   1 and 2 of the colour's number. *)
BasicColors ==
  [c \in 0 .. NUM_COLORS - 1 |->
     [r |-> IF (c \div 4) % 2 = 1 THEN 1000 ELSE 0,
      g |-> IF (c \div 2) % 2 = 1 THEN 1000 ELSE 0,
      b |-> IF c % 2 = 1 THEN 1000 ELSE 0]]

(* init_pair on given flags and table: the table and return value after *)
init_pair_on(fl, prs, pair, f, b) ==
  IF BitAnd(fl, WC_COLOR) # 0 /\ HAS_COLORS # 0 /\ pair < MAX_NUM_PAIRS /\ pair > 0
  THEN [pairs |-> (pair :> [f |-> f, b |-> b]) @@ prs, ret |-> OK]
  ELSE [pairs |-> prs, ret |-> ERR]

init_pair(pair, f, b) ==
  LET r == init_pair_on(flags, color_pairs, pair, f, b)
  IN  /\ Called("init_pair", r.ret)
      /\ color_pairs' = r.pairs
      /\ caller' = [caller EXCEPT !.pair = pair, !.fg = f, !.bg = b]
      /\ UNCHANGED <<closed, temps, startmode, cursize, curinfo, conmode, inq, pc, win, held, scr, active, flags, colors, latest>>

(* pair_content(pair, &f, &b) with the caller's f and b Unset before the
   call: the function assigns its own two pointer parameters and stores
   nothing through them. *)
pair_content(pair) ==
  /\ Called("pair_content",
            IF BitAnd(flags, WC_COLOR) # 0 /\ HAS_COLORS # 0
               /\ pair < MAX_NUM_PAIRS /\ pair >= 0
            THEN OK ELSE ERR)
  /\ caller' = [caller EXCEPT !.pair = pair, !.f = Unset, !.b = Unset]
  /\ UNCHANGED <<closed, temps, startmode, cursize, curinfo, conmode, inq, pc, win, held, scr, active, flags, colors, color_pairs, latest>>

init_color(color, red, green, blue) ==
  LET usable == /\ BitAnd(flags, WC_COLOR) # 0 /\ HAS_COLORS # 0
                /\ CAN_CHANGE_COLOR # 0
                /\ color < NUM_COLORS /\ color > 0
      inRange == ~(red > 1000 \/ green > 1000 \/ blue > 1000
                   \/ red < 0 \/ green < 0 \/ blue < 0)
  IN  /\ Called("init_color", IF usable /\ inRange THEN OK ELSE ERR)
      /\ colors' = IF usable /\ inRange
                   THEN (color :> [r |-> red, g |-> green, b |-> blue]) @@ colors
                   ELSE colors
      /\ UNCHANGED <<closed, temps, startmode, cursize, curinfo, conmode, inq, pc, caller, win, held, scr, active, flags, color_pairs, latest>>

(* start_color: the colours, init_pair(0, ..), attrset(COLOR_PAIR(0)) and
   only then the flag *)
start_color ==
  IF HAS_COLORS # 0
  THEN LET p == init_pair_on(flags, color_pairs, 0, COLOR_WHITE, COLOR_BLACK)
       IN  /\ Called("start_color", OK)
           /\ colors' = BasicColors
           /\ color_pairs' = p.pairs
           /\ win' = wattrset(win, getattrs_on(COLOR_PAIR(0), flags, BasicColors, p.pairs))
           /\ flags' = BitOr(flags, WC_COLOR)
           /\ UNCHANGED <<closed, temps, startmode, cursize, curinfo, conmode, inq, pc, caller, held, scr, active, latest>>
  ELSE /\ Called("start_color", ERR)
       /\ UNCHANGED <<closed, temps, startmode, cursize, curinfo, conmode, inq, pc, caller, win, held, scr, active, flags, colors, color_pairs, latest>>

attrset(attrs) ==
  /\ Called("attrset", OK)
  /\ \E bmask \in GetattrsResults(attrs) : win' = wattrset(win, bmask)
  /\ UNCHANGED <<closed, temps, startmode, cursize, curinfo, conmode, inq, pc, caller, held, scr, active, flags, colors, color_pairs, latest>>

(* The caller builds an attribute word: word = style | COLOR_PAIR(n) *)
COLOR_PAIR_call(n, style) ==
  /\ Called("COLOR_PAIR", COLOR_PAIR(n))
  /\ caller' = [caller EXCEPT !.pair = n, !.word = BitOr(style, COLOR_PAIR(n))]
  /\ UNCHANGED <<closed, temps, startmode, cursize, curinfo, conmode, inq, pc, win, held, scr, active, flags, colors, color_pairs, latest>>

(* PAIR_NUMBER(word) on the word the caller built *)
PAIR_NUMBER_call ==
  /\ Called("PAIR_NUMBER", PAIR_NUMBER(caller.word))
  /\ UNCHANGED <<closed, temps, startmode, cursize, curinfo, conmode, inq, pc, caller, win, held, scr, active, flags, colors, color_pairs, latest>>

(***************************************************************************)
(* The cursor.  SetConsoleCursorInfo and GetConsoleCursorInfo succeed or   *)
(* fail as the console decides; caller.level remembers the visibility      *)
(* passed to the latest curs_set that ran to its end.                      *)
(***************************************************************************)
HighVisibility == 100

(* The level curs_set reports for a cursor *)
VisibilityOf(info) ==
  IF ~info.bVisible THEN 0
  ELSE IF info.dwSize = cursize THEN 1
  ELSE 2

(* The cursor curs_set builds from the old one *)
CursorFor(visibility, curold) ==
  CASE visibility = 0 -> [curold EXCEPT !.bVisible = FALSE]
    [] visibility = 1 -> [dwSize |-> cursize, bVisible |-> TRUE]
    [] visibility = 2 -> [dwSize |-> HighVisibility, bVisible |-> TRUE]

curs_set(visibility, okGet, okPrim, okBbuf) ==
  LET curold  == curinfo[win.prim]
      r       == okPrim \/ okBbuf
  IN  IF ~okGet \/ visibility \notin {0, 1, 2}
      THEN /\ Called("curs_set", ERR)
           /\ UNCHANGED <<closed, temps, startmode, cursize, curinfo, conmode, win, held, caller, inq, pc, scr, active, flags,
                          colors, color_pairs, latest>>
      ELSE /\ Called("curs_set", IF ~r THEN ERR ELSE VisibilityOf(curold))
           /\ curinfo' = [h \in {0, 1} |->
                            IF (h = win.prim /\ okPrim) \/ (h = win.bbuf /\ okBbuf)
                            THEN CursorFor(visibility, curold)
                            ELSE curinfo[h]]
           /\ caller' = [caller EXCEPT !.level = IF r THEN visibility ELSE @]
           /\ UNCHANGED <<closed, temps, startmode, cursize, conmode, win, held, inq, pc, scr, active, flags,
                          colors, color_pairs, latest>>

(***************************************************************************)
(* The input mode.  GetConsoleMode and SetConsoleMode succeed or fail as   *)
(* the console decides: okGet, okSet.  setmode and clearmode give the mode *)
(* of the input buffer after the call and the value returned.              *)
(***************************************************************************)
(* 'if (!GetConsoleMode(hcon, &mode));' is an empty statement: the
   'return ERR' that follows is always executed *)
setmode(mode, bmask, okGet, okSet) == [mode |-> mode, ret |-> ERR]

clearmode(mode, bmask, okGet, okSet) ==
  IF ~okGet THEN [mode |-> mode, ret |-> ERR]
  ELSE IF okSet THEN [mode |-> BitClear(mode, bmask), ret |-> OK]
  ELSE [mode |-> mode, ret |-> ERR]

ModeCall(name, mode, r) ==
  /\ Called(name, r)
  /\ conmode' = mode
  /\ UNCHANGED <<closed, temps, startmode, cursize, curinfo, win, held, caller, inq, pc, scr, active, flags, colors,
                 color_pairs, latest>>

cbreak(g1, s1, g2, s2) ==
  LET c == clearmode(conmode, ENABLE_LINE_INPUT, g1, s1)
      t == setmode(c.mode, ENABLE_PROCESSED_INPUT, g2, s2)
  IN  IF c.ret = ERR THEN ModeCall("cbreak", c.mode, ERR)
      ELSE IF t.ret = ERR THEN ModeCall("cbreak", t.mode, ERR)
      ELSE ModeCall("cbreak", t.mode, OK)

nocbreak(g, t) ==
  LET r == setmode(conmode, BitOr(ENABLE_LINE_INPUT, ENABLE_PROCESSED_INPUT), g, t)
  IN  ModeCall("nocbreak", r.mode, r.ret)

raw(g1, s1, g2, s2) ==
  LET c == clearmode(conmode, ENABLE_LINE_INPUT, g1, s1)
      d == clearmode(c.mode, ENABLE_PROCESSED_INPUT, g2, s2)
  IN  IF c.ret = ERR THEN ModeCall("raw", c.mode, ERR)
      ELSE IF d.ret = ERR THEN ModeCall("raw", d.mode, ERR)
      ELSE ModeCall("raw", d.mode, OK)

noraw(g, t) ==
  LET r == setmode(conmode, BitOr(ENABLE_LINE_INPUT, ENABLE_PROCESSED_INPUT), g, t)
  IN  ModeCall("noraw", r.mode, r.ret)

(***************************************************************************)
(* Key input.  An event of the console's input buffer is [EventType,       *)
(* bKeyDown, vk, ch]: its type, for a key event whether the key went down, *)
(* its virtual key code and its character (0 when the key has none).       *)
(* wgetch runs one iteration of its loop per step, so that a read that     *)
(* waits is a state the model is in.                                       *)
(***************************************************************************)
Set == "set"

Clear == "clear"

(* What a read of flag bit b of window w can find *)
FlagValues(w, b) == IF w.flags[b] = Indeterminate THEN {Set, Clear} ELSE {w.flags[b]}

echo ==
  /\ Called("echo", OK)
  /\ flags' = BitOr(flags, WC_ECHO)
  /\ UNCHANGED <<closed, temps, startmode, cursize, curinfo, conmode, win, held, caller, inq, pc, scr, active, colors, color_pairs, latest>>

noecho ==
  /\ Called("noecho", OK)
  /\ flags' = BitClear(flags, WC_ECHO)
  /\ UNCHANGED <<closed, temps, startmode, cursize, curinfo, conmode, win, held, caller, inq, pc, scr, active, colors, color_pairs, latest>>

nodelay(p, bf) ==
  IF p = NULL
  THEN /\ Called("nodelay", ERR)
       /\ UNCHANGED <<closed, temps, startmode, cursize, curinfo, conmode, win, held, caller, inq, pc, scr, active, flags, colors, color_pairs, latest>>
  ELSE /\ Called("nodelay", OK)
       /\ Assign(p, [Deref(p) EXCEPT !.flags[WC_NODELAY] = IF bf THEN Set ELSE Clear])
       /\ UNCHANGED <<closed, temps, startmode, cursize, curinfo, conmode, caller, inq, pc, scr, active, flags, colors, color_pairs, latest>>

keypad(p, bf) ==
  IF p = NULL
  THEN /\ Called("keypad", ERR)
       /\ UNCHANGED <<closed, temps, startmode, cursize, curinfo, conmode, win, held, caller, inq, pc, scr, active, flags, colors, color_pairs, latest>>
  ELSE /\ Called("keypad", OK)
       /\ Assign(p, [Deref(p) EXCEPT !.flags[WC_WKEYPAD] = IF bf THEN Set ELSE Clear])
       /\ UNCHANGED <<closed, temps, startmode, cursize, curinfo, conmode, caller, inq, pc, scr, active, flags, colors, color_pairs, latest>>

(* kbhit() of the C runtime: is a keystroke waiting, that is, a key-down
   event of a key that gives a character, anywhere in the input buffer? *)
kbhit_AnyTime(q) == TRUE

kbhit(q) ==
  \E i \in 1 .. Len(q) : q[i].EventType = KEY_EVENT /\ q[i].bKeyDown /\ q[i].ch # 0

(* For function key definitions *)
KEY_F(n) == KEY_F0 + n

(* The raw character where the keypad translation is left out *)
KeyCode_Raw(c) == c.ch

(* The switch on the virtual key code: a key it has no case for keeps the
   raw character *)
KeyCode(c) ==
  CASE c.vk = VK_ESCAPE -> KEY_EXIT
    [] c.vk = VK_CANCEL -> KEY_CANCEL
    [] c.vk = VK_BACK -> KEY_BACKSPACE
    [] c.vk = VK_CLEAR -> KEY_CLEAR
    [] c.vk = VK_RETURN -> KEY_ENTER
    [] c.vk = VK_CONTROL -> KEY_COMMAND
    [] c.vk = VK_PRIOR -> KEY_PPAGE
    [] c.vk = VK_NEXT -> KEY_NPAGE
    [] c.vk = VK_END -> KEY_END
    [] c.vk = VK_HOME -> KEY_HOME
    [] c.vk = VK_LEFT -> KEY_LEFT
    [] c.vk = VK_UP -> KEY_UP
    [] c.vk = VK_RIGHT -> KEY_RIGHT
    [] c.vk = VK_DOWN -> KEY_DOWN
    [] c.vk = VK_SELECT -> KEY_SELECT
    [] c.vk = VK_PRINT -> KEY_PRINT
    [] c.vk = VK_DELETE -> KEY_DC
    [] c.vk = VK_HELP -> KEY_HELP
    [] c.vk = VK_NUMPAD1 -> KEY_C1
    [] c.vk = VK_NUMPAD2 -> KEY_DOWN
    [] c.vk = VK_NUMPAD3 -> KEY_C3
    [] c.vk = VK_NUMPAD4 -> KEY_LEFT
    [] c.vk = VK_NUMPAD5 -> KEY_B2
    [] c.vk = VK_NUMPAD6 -> KEY_RIGHT
    [] c.vk = VK_NUMPAD7 -> KEY_A1
    [] c.vk = VK_NUMPAD8 -> KEY_UP
    [] c.vk = VK_NUMPAD9 -> KEY_A3
    [] c.vk = VK_F1 -> KEY_F(1)
    [] c.vk = VK_F2 -> KEY_F(2)
    [] c.vk = VK_F3 -> KEY_F(3)
    [] c.vk = VK_F4 -> KEY_F(4)
    [] c.vk = VK_F5 -> KEY_F(5)
    [] c.vk = VK_F6 -> KEY_F(6)
    [] c.vk = VK_F7 -> KEY_F(7)
    [] c.vk = VK_F8 -> KEY_F(8)
    [] c.vk = VK_F9 -> KEY_F(9)
    [] c.vk = VK_F10 -> KEY_F(10)
    [] c.vk = VK_F11 -> KEY_F(11)
    [] c.vk = VK_F12 -> KEY_F(12)
    [] c.vk = VK_F13 -> KEY_F(13)
    [] c.vk = VK_F14 -> KEY_F(14)
    [] c.vk = VK_F15 -> KEY_F(15)
    [] c.vk = VK_F16 -> KEY_F(16)
    [] c.vk = VK_F17 -> KEY_F(17)
    [] c.vk = VK_F18 -> KEY_F(18)
    [] c.vk = VK_F19 -> KEY_F(19)
    [] c.vk = VK_F20 -> KEY_F(20)
    [] c.vk = VK_F21 -> KEY_F(21)
    [] c.vk = VK_F22 -> KEY_F(22)
    [] c.vk = VK_F23 -> KEY_F(23)
    [] c.vk = VK_F24 -> KEY_F(24)
    [] OTHER -> c.ch

(* wgetch(p) is entered; p is its parameter 'win' *)
wgetch_call(p) ==
  /\ pc = "idle"
  /\ nops < MaxOps
  /\ nops' = nops + 1
  /\ lastOp' = "wgetch"
  /\ pc' = "wgetch"
  /\ caller' = [caller EXCEPT !.rwin = p]
  /\ UNCHANGED <<closed, temps, startmode, cursize, curinfo, conmode, win, held, inq, scr, active, flags, colors, color_pairs, ret, latest>>

(* getch(): wgetch(stdscr) is entered *)
getch ==
  /\ pc = "idle"
  /\ nops < MaxOps
  /\ nops' = nops + 1
  /\ lastOp' = "getch"
  /\ pc' = "wgetch"
  /\ caller' = [caller EXCEPT !.rwin = "stdscr"]
  /\ UNCHANGED <<closed, temps, startmode, cursize, curinfo, conmode, win, held, inq, scr, active, flags, colors, color_pairs, ret, latest>>

(* Mutant for C23: the echo goes to the window the read was issued on *)
EchoTarget_Reader(p) == p

(* The window the echo is written to: addch(...) is waddch(stdscr, ...) *)
EchoTarget(p) == "stdscr"

(* Mutant for C24: the loop ends on any key event *)
IsKeyDown_AnyKeyEvent(c) == c.EventType = KEY_EVENT

(* The event that ends the loop: not (c.EventType != KEY_EVENT ||
   !c.Event.KeyEvent.bKeyDown) *)
IsKeyDown(c) == ~(c.EventType # KEY_EVENT \/ ~c.bKeyDown)

(* One iteration of wgetch's loop and, on a key-down event, the rest of
   the function.  ReadConsoleInput waits while the input buffer is empty:
   the step cannot be taken then. *)
wgetch_loop ==
  /\ pc = "wgetch"
  /\ \E nd \in FlagValues(Deref(caller.rwin), WC_NODELAY) :
       LET p  == caller.rwin
           r1 == [Deref(p) EXCEPT !.flags[WC_NODELAY] = nd]
       IN  IF nd = Set /\ ~kbhit(inq)
           THEN /\ pc' = "idle"
                /\ ret' = ERR
                /\ Assign(p, r1)
                /\ UNCHANGED <<inq, scr, latest>>
           ELSE /\ inq # <<>>
                /\ inq' = Tail(inq)
                /\ LET c == Head(inq)
                   IN  IF ~IsKeyDown(c)
                       THEN /\ pc' = "wgetch"
                            /\ Assign(p, r1)
                            /\ UNCHANGED <<scr, ret, latest>>
                       ELSE \E ok \in BOOLEAN, kp \in FlagValues(r1, WC_WKEYPAD) :
                              LET r2 == [r1 EXCEPT !.flags[WC_WKEYPAD] = kp]
                                  w0 == IF p = "stdscr" THEN r2 ELSE win
                                  h0 == IF p = "stdscr" THEN held ELSE r2
                                  t  == EchoTarget(p)
                                  tw == IF t = "stdscr" THEN w0 ELSE h0
                                  on == BitAnd(flags, WC_ECHO) # 0
                                  e  == waddch(tw, scr, c.ch, ok)
                              IN  /\ pc' = "idle"
                                  /\ win' = IF on /\ t = "stdscr" THEN e.win ELSE w0
                                  /\ held' = IF on /\ t # "stdscr" THEN e.win ELSE h0
                                  /\ scr' = IF on THEN e.scr ELSE scr
                                  /\ latest' = IF on
                                               THEN waddch(tw, Ghost, c.ch, ok).scr[WriteTarget(tw)]
                                               ELSE latest
                                  /\ ret' = IF kp = Set THEN KeyCode(c) ELSE c.ch
  /\ UNCHANGED <<closed, temps, startmode, cursize, curinfo, conmode, caller, active, flags, colors, color_pairs, lastOp, nops>>

(* An event arrives in the console's input buffer *)
input(e) ==
  /\ Len(inq) < MaxQueue
  /\ inq' = Append(inq, e)
  /\ UNCHANGED <<closed, temps, startmode, cursize, curinfo, conmode, win, held, caller, pc, scr, active, flags, colors, color_pairs,
                 lastOp, ret, latest, nops>>

(***************************************************************************)
(* Inputs.                                                                 *)
(***************************************************************************)
Ys == -1 .. win.size.Y
Xs == -1 .. win.size.X

(* For the calls that move and write: the two corners and two points outside *)
MvCoords == {<<0, 0>>, <<win.size.Y - 1, win.size.X - 1>>, <<win.size.Y, 0>>, <<0, -1>>}

Texts == UNION { [1 .. n -> {97}] : n \in 0 .. MaxText }

Rows == { [i \in 1 .. win.size.X |-> IF i % 2 = k THEN 97 ELSE 98] : k \in {0, 1} }

AttrInputs == {A_BOLD}

Next ==
  \/ \E y \in Ys, x \in Xs : move(y, x)
  \/ \E ch \in AddchInputs, ok \in BOOLEAN : addch(ch, ok)
  \/ refresh
  \/ \E a \in AttrInputs : attron(a)
  \/ \E a \in AttrInputs : attroff(a)
  \/ \E s \in Rows : addchs(s)

Spec == Init /\ [][Next]_vars

(* The write and movement calls with the formatted writes among them, from
   a viewport at the console buffer's origin. *)
InitWrite == Init /\ win.rect.Left = 0 /\ win.rect.Top = 0

NextWrite ==
  \/ \E p \in MvCoords : move(p[1], p[2])
  \/ \E ch \in AddchInputs, ok \in BOOLEAN : addch(ch, ok)
  \/ refresh
  \/ \E a \in AttrInputs : attron(a)
  \/ \E a \in AttrInputs : attroff(a)
  \/ \E t \in Texts : \E f \in 0 .. Len(t) : printw(t, f)
  \/ \E p \in MvCoords, t \in Texts : \E f \in 0 .. Len(t) : mvprintw(p[1], p[2], t, f)

SpecWrite == InitWrite /\ [][NextWrite]_vars

(* The calls through a WINDOW *, on stdscr, on the caller's own window and
   on NULL, from a viewport at the console buffer's origin. *)
WinCoords == {<<0, 0>>, <<win.size.Y - 1, win.size.X - 1>>, <<win.size.Y, 0>>}

(* Where the formatted writes move to: the last cell, and below the window *)
PrintCoords == {<<win.size.Y - 1, win.size.X - 1>>, <<win.size.Y, 0>>}

NextWin ==
  \/ \E c \in WinCoords : move(c[1], c[2])
  \/ \E p \in WindowPtrs, ch \in AddchInputs, ok \in BOOLEAN : waddch_call(p, ch, ok)
  \/ \E p \in WindowPtrs, t \in Texts : \E f \in {0, Len(t)} : wprintw(p, t, f)
  \/ \E p \in WindowPtrs, c \in PrintCoords, t \in Texts : \E f \in {0, Len(t)} :
       mvwprintw(p, c[1], c[2], t, f)
  \/ \E ch \in OrdinaryChars : waddch_call(NULL, ch, TRUE)
  \/ \E t \in Texts : wprintw(NULL, t, 0)
  \/ \E t \in Texts : mvwprintw(NULL, 0, 0, t, 0)

SpecWin == InitWrite /\ [][NextWin]_vars

(* The colour calls, from the smallest window: none of them reads the
   window's geometry. *)
InitColor == Init /\ win.rect = [Left |-> 0, Top |-> 0, Right |-> 0, Bottom |-> 0]

PairInputs == {0 - 1, 0, 1, MAX_NUM_PAIRS - 1, MAX_NUM_PAIRS}

ColorInputs == {COLOR_RED, COLOR_WHITE}

(* Colour numbers that index outside colors[NUM_COLORS] *)
OutOfRangeColors == {0 - 1, NUM_COLORS}

NextColor ==
  \/ start_color
  \/ \E p \in PairInputs, f \in ColorInputs : init_pair(p, f, COLOR_BLACK)
  \/ \E f \in OutOfRangeColors, b \in OutOfRangeColors : init_pair(1, f, b)
  \/ \E p \in PairInputs : pair_content(p)
  \/ init_color(COLOR_RED, 1000, 0, 0)

SpecColor == InitColor /\ [][NextColor]_vars

(* The colour scenario: colours are started, a pair is defined, its
   attribute word built and set as the style of stdscr, and a character
   written: ScenarioOps calls, in any order. *)
ScenarioChar == 88

InitScenario ==
  /\ Constructed
  /\ CursorIs(DefaultCursorSize, DefaultCursorSize)
  /\ win.rect = [Left |-> 0, Top |-> 0, Right |-> 0, Bottom |-> 0]
  /\ nops = MaxOps - ScenarioOps

NextScenario ==
  \/ start_color
  \/ \E f \in ColorInputs : init_pair(1, f, COLOR_BLACK)
  \/ \E n \in {0, 1} : COLOR_PAIR_call(n, 0)
  \/ attrset(caller.word)
  \/ \E ok \in BOOLEAN : addch(ScenarioChar, ok)

SpecScenario == InitScenario /\ [][NextScenario]_vars

(* Enabling pairs one after another: colours are started, pairs 1 and 2
   defined, and attribute words enabled with attron or set with attrset. *)
EnablePairs == {1, 2}

EnableColors == {COLOR_RED, COLOR_GREEN}

EnableWords == {COLOR_PAIR(p) : p \in EnablePairs} \cup {A_BOLD}

NextEnable ==
  \/ start_color
  \/ \E p \in EnablePairs, f \in EnableColors : init_pair(p, f, COLOR_BLACK)
  \/ \E a \in EnableWords : attron(a)
  \/ \E a \in EnableWords : attrset(a)

SpecEnable == InitScenario /\ [][NextEnable]_vars

(* Attribute words: built from every pair number and from no, one and all
   of the style flags, then decoded and applied. *)
AllStyles == 2 * A_UNDERLINE - 1

StyleInputs == {0, A_BOLD, AllStyles}

NextAttr ==
  \/ start_color
  \/ \E n \in 0 .. MAX_NUM_PAIRS - 1, st \in StyleInputs : COLOR_PAIR_call(n, st)
  \/ PAIR_NUMBER_call
  \/ attrset(caller.word)

SpecAttr == InitColor /\ [][NextAttr]_vars

(* Reads of the keyboard: events arrive at any time; a key with a
   character goes down and up, a key without one goes down, Escape goes
   down, and an event that is no key event. *)
Events ==
  { [EventType |-> KEY_EVENT, bKeyDown |-> TRUE, vk |-> 65, ch |-> 97],
    [EventType |-> KEY_EVENT, bKeyDown |-> FALSE, vk |-> 65, ch |-> 97],
    [EventType |-> KEY_EVENT, bKeyDown |-> TRUE, vk |-> 16, ch |-> 0],
    [EventType |-> KEY_EVENT, bKeyDown |-> TRUE, vk |-> VK_ESCAPE, ch |-> 27],
    [EventType |-> KEY_EVENT + 1, bKeyDown |-> FALSE, vk |-> 0, ch |-> 0] }

NextInput ==
  \/ \E bf \in BOOLEAN : nodelay("stdscr", bf)
  \/ nodelay(NULL, TRUE)
  \/ getch
  \/ wgetch_loop
  \/ \E e \in Events : input(e)

SpecInput == InitColor /\ [][NextInput]_vars

(* The keys wgetch has a case for, the insert key, a letter and a modifier *)
TranslatedKeys ==
  {VK_ESCAPE, VK_CANCEL, VK_BACK, VK_CLEAR, VK_RETURN, VK_CONTROL, VK_PRIOR, VK_NEXT,
   VK_END, VK_HOME, VK_LEFT, VK_UP, VK_RIGHT, VK_DOWN, VK_SELECT, VK_PRINT, VK_DELETE,
   VK_HELP} \cup (VK_NUMPAD1 .. VK_NUMPAD9) \cup (VK_F1 .. VK_F24)

LetterKey == 65

ShiftKey == 16

(* The character the console reports with a key: the control character of
   Escape, Backspace, Enter and Ctrl+Break, the digit of a numeric keypad
   key, the letter, and 0 for a key that has no character. *)
KeyChar(vk) ==
  CASE vk \in {VK_ESCAPE, VK_BACK, VK_RETURN, VK_CANCEL} -> vk
    [] vk \in VK_NUMPAD1 .. VK_NUMPAD9 -> 49 + (vk - VK_NUMPAD1)
    [] vk = LetterKey -> 97
    [] OTHER -> 0

KeyDown(vk) == [EventType |-> KEY_EVENT, bKeyDown |-> TRUE, vk |-> vk, ch |-> KeyChar(vk)]

KeyEvents == { KeyDown(vk) : vk \in TranslatedKeys \cup {VK_INSERT, LetterKey, ShiftKey} }

(* Reads of one key at a time, with the keypad flag set, cleared or as
   initscr left it. *)
NextKeys ==
  \/ \E bf \in BOOLEAN : keypad("stdscr", bf)
  \/ keypad(NULL, TRUE)
  \/ getch
  \/ wgetch_loop
  \/ \E e \in KeyEvents : inq = <<>> /\ input(e)

SpecKeys == InitColor /\ [][NextKeys]_vars

(* Reads with the echo on and off, issued on stdscr and on the caller's
   own window: a letter goes down and up, and an event that is no key
   event. *)
EchoEvents ==
  { KeyDown(LetterKey),
    [KeyDown(LetterKey) EXCEPT !.bKeyDown = FALSE],
    [EventType |-> KEY_EVENT + 1, bKeyDown |-> FALSE, vk |-> 0, ch |-> 0] }

NextEcho ==
  \/ echo
  \/ noecho
  \/ \E p \in WindowPtrs : wgetch_call(p)
  \/ wgetch_loop
  \/ \E e \in EchoEvents : input(e)

SpecEcho == InitWrite /\ [][NextEcho]_vars

(* The cursor calls and refresh, from every cursor initscr can find: the
   console's cursor and the new buffers' cursor small, half or full. *)
CursorSizes == {DefaultCursorSize, 2 * DefaultCursorSize, HighVisibility}

InitCursor ==
  /\ Constructed
  /\ win.rect = [Left |-> 0, Top |-> 0, Right |-> 0, Bottom |-> 0]
  /\ \E c \in CursorSizes, n \in CursorSizes : CursorIs(c, n)
  /\ nops = 0

NextCursor ==
  \/ \E v \in 0 .. 3, g \in BOOLEAN, p \in BOOLEAN, b \in BOOLEAN : curs_set(v, g, p, b)
  \/ refresh

SpecCursor == InitCursor /\ [][NextCursor]_vars

(* The input-mode calls and the echo switch, with every outcome of the
   console's mode query and mode set, from every window initscr builds. *)
NextMode ==
  \/ \E g1 \in BOOLEAN, s1 \in BOOLEAN, g2 \in BOOLEAN, s2 \in BOOLEAN : cbreak(g1, s1, g2, s2)
  \/ \E g \in BOOLEAN, t \in BOOLEAN : nocbreak(g, t)
  \/ \E g1 \in BOOLEAN, s1 \in BOOLEAN, g2 \in BOOLEAN, s2 \in BOOLEAN : raw(g1, s1, g2, s2)
  \/ \E g \in BOOLEAN, t \in BOOLEAN : noraw(g, t)
  \/ echo
  \/ noecho

SpecMode == Init /\ [][NextMode]_vars

(* The program from its start: initscr with every outcome, then cursor
   movement, writes, refreshes and endwin. *)
NextStartup ==
  \/ \E v \in Viewports, f \in {NoFailure} \cup (1 .. Len(InitSteps)) : initscr_call(v, f)
  \/ pc = "idle" /\ \E y \in Ys, x \in Xs : move(y, x)
  \/ \E ch \in OrdinaryChars : addch(ch, TRUE)
  \/ refresh
  \/ endwin

SpecStartup == Start /\ [][NextStartup]_vars

(* A session: drawing, refresh, mode and colour calls, and endwin at any
   point. *)
NextSession ==
  \/ \E ch \in OrdinaryChars, ok \in BOOLEAN : addch(ch, ok)
  \/ refresh
  \/ start_color
  \/ \E g \in BOOLEAN, t \in BOOLEAN : raw(g, t, TRUE, TRUE)
  \/ nocbreak(TRUE, TRUE)
  \/ endwin

SpecSession == InitColor /\ [][NextSession]_vars

(* The program keeps running: a step of wgetch that can be taken is taken *)
SpecInputLive == SpecInput /\ WF_vars(wgetch_loop)

(***************************************************************************)
(* Properties.                                                             *)
(***************************************************************************)
InWindow(y, x) == 0 <= y /\ y < win.size.Y /\ 0 <= x /\ x < win.size.X

Back == scr[win.bbuf].cell
Displayed == scr[active].cell
StepIs(name) == lastOp' = name /\ nops' = nops + 1
NoDelaySet == win.flags[WC_NODELAY] = Set
KeystrokeWaiting ==
  \E i \in 1 .. Len(inq) :
    inq[i].EventType = KEY_EVENT /\ inq[i].bKeyDown /\ inq[i].ch # 0

(* C1: a move to (row, col) inside the window succeeds and puts the cursor
   exactly there; a move with either coordinate negative or >= the size
   returns ERR and leaves the cursor where it was. *)
C1_MoveContract ==
  [][\A y \in Ys, x \in Xs :
       move(y, x) =>
         IF InWindow(y, x)
         THEN ret' = OK /\ win'.cur = [X |-> x, Y |-> y]
         ELSE ret' = ERR /\ win'.cur = win.cur]_vars

C1_Witness ==
  /\ lastOp = "move" /\ ret = ERR
  /\ win.cur.Y > 0 /\ win.cur.Y < win.size.Y

(* C2: right after every refresh, the buffer that is now the back buffer
   and the buffer now on display hold the same character and style in every
   cell, for every viewport initscr can be given. *)
C2_BuffersEqualAfterRefresh ==
  lastOp = "refresh" => Back = Displayed

(* C3: after a refresh, every cell on display holds what was written to it
   most recently since initscr (blank if nothing was). *)
C3_DisplayShowsLatestWrites ==
  lastOp = "refresh" => Displayed = latest.cell

(* C4: between calls the cursor is inside the window: 0 <= row < rows and
   0 <= col < cols. *)
C4_CursorInsideWindow ==
  InWindow(win.cur.Y, win.cur.X)

(* C5: prim and bbuf are always 0 or 1 and differ; initscr leaves prim = 0;
   a refresh toggles both and no other call changes either. *)
C5_IndicesComplementary ==
  /\ [](/\ win.prim \in {0, 1} /\ win.bbuf \in {0, 1}
        /\ win.prim + win.bbuf = 1
        /\ (lastOp = "initscr" => win.prim = 0))
  /\ [][IF StepIs("refresh")
        THEN win'.prim = 1 - win.prim /\ win'.bbuf = 1 - win.bbuf
        ELSE win'.prim = win.prim /\ win'.bbuf = win.bbuf]_vars

C5_Witness ==
  /\ lastOp = "refresh" /\ nops >= 2
  /\ win.prim = 0 /\ win.bbuf = 1 /\ active = 0
  /\ \E p \in DOMAIN Displayed : Displayed[p].ch = 97

(* C6: writing an ordinary character, the backend's write succeeding, stores
   exactly one cell, the character with the window's current style, at the
   cursor's position in the back buffer, changes no other cell of either
   buffer, sets the column to (column + 1) mod cols and increments the row
   exactly when the new column is 0. *)
C6_OrdinaryCharStoresOneCell ==
  [][\A ch \in OrdinaryChars :
       addch(ch, TRUE) =>
         LET p  == <<win.cur.Y, win.cur.X>>
             nx == (win.cur.X + 1) % win.size.X
         IN  /\ p \in DOMAIN Back
             /\ scr'[win.bbuf].cell = [Back EXCEPT ![p] = [ch |-> ch, attr |-> win.attrs]]
             /\ scr'[win.prim].cell = scr[win.prim].cell
             /\ win'.cur.X = nx
             /\ win'.cur.Y = IF nx = 0 THEN win.cur.Y + 1 ELSE win.cur.Y]_vars

(* C7: no call but refresh changes which buffer is on display or any cell
   of the buffer on display. *)
C7_DisplayChangesOnlyByRefresh ==
  [][~StepIs("refresh") => active' = active /\ scr'[active].cell = Displayed]_vars

C7_Witness ==
  /\ lastOp = "mvprintw" /\ ret = OK
  /\ active = 1
  /\ \E p \in DOMAIN Back : Back[p].ch = 97 /\ Displayed[p].ch = WC_BGND
  /\ \E q \in DOMAIN Back : Displayed[q].ch = 97

(* C8: from column 0 of any row the cursor can be in, cols ordinary
   characters written one addch after another, every backend write
   succeeding, fill that row's cells of the back buffer in order, leave the
   other rows as they were and leave the cursor at (row + 1, 0). *)
C8_FullRowWraps ==
  [][\A s \in Rows :
       (addchs(s) /\ win.cur.X = 0) =>
         /\ \A p \in DOMAIN Back :
              scr'[win.bbuf].cell[p] =
                IF p[1] = win.cur.Y THEN [ch |-> s[p[2] + 1], attr |-> win.attrs]
                ELSE Back[p]
         /\ win'.cur = [X |-> 0, Y |-> win.cur.Y + 1]]_vars

C8_Witness ==
  /\ lastOp = "addchs"
  /\ win.size.X = 2 /\ win.size.Y = 2
  /\ win.cur = [X |-> 0, Y |-> 2]
  /\ Back[<<1, 0>>].ch = 98 /\ Back[<<1, 1>>].ch = 97
  /\ Back[<<0, 0>>].ch = WC_BGND

(* C9: a newline, from any cursor position, sets the column to 0, adds
   exactly one to the row, returns OK and writes no cell of either buffer. *)
C9_Newline ==
  [][\A ok \in BOOLEAN :
       addch(NL, ok) =>
         /\ win'.cur = [X |-> 0, Y |-> win.cur.Y + 1]
         /\ ret' = OK
         /\ scr' = scr]_vars

C9_Witness ==
  /\ lastOp = "addch" /\ ret = OK /\ nops = 2
  /\ win.size.X >= 2
  /\ win.cur = [X |-> 0, Y |-> 1]
  /\ Back[<<0, 0>>].ch = 97

(* C10: a carriage return sets the column to 0 and leaves the row, both
   buffers, the style and the flags as they were. *)
C10_CarriageReturn ==
  [][\A ok \in BOOLEAN :
       addch(CR, ok) =>
         /\ win'.cur = [X |-> 0, Y |-> win.cur.Y]
         /\ scr' = scr
         /\ win'.attrs = win.attrs
         /\ win'.flags = win.flags
         /\ flags' = flags]_vars

C10_Witness ==
  /\ lastOp = "addch" /\ ret = OK /\ nops = 2
  /\ win.size.X >= 2
  /\ win.cur = [X |-> 0, Y |-> 0]
  /\ Back[<<0, 0>>].ch = 97

(* C11: when the backend's cell write fails, waddch returns ERR and leaves
   the cursor of the window, and of the other window, where it was; waddch
   on a NULL window returns ERR and changes nothing. *)
C11_FailedWriteKeepsCursor ==
  [][/\ \A p \in WindowPtrs, ch \in OrdinaryChars :
          waddch_call(p, ch, FALSE) =>
            /\ ret' = ERR
            /\ win'.cur = win.cur /\ held'.cur = held.cur
     /\ \A ch \in OrdinaryChars, ok \in BOOLEAN :
          waddch_call(NULL, ch, ok) =>
            /\ ret' = ERR
            /\ UNCHANGED <<closed, temps, startmode, cursize, curinfo, conmode, inq, pc, caller, win, held, scr, active, flags, colors, color_pairs>>]_vars

C11_Witness ==
  /\ lastOp = "waddch" /\ ret = ERR /\ nops = 3
  /\ held.cur = [X |-> 1, Y |-> 0]
  /\ win.cur = [X |-> 0, Y |-> 1]
  /\ scr[held.bbuf].cell[<<0, 0>>].ch = 97

(* C12: wprintw writes the characters of the rendered string in order up
   to the first one whose write fails and none after it, and returns OK
   exactly when the whole string was written: ERR when a write failed. *)
C12_PrintReportsFailedWrite ==
  [][\A p \in WindowPtrs, t \in Texts : \A f \in 0 .. Len(t) :
       (wprintw(p, t, f) /\ Len(t) + 1 <= win.size.Y * win.size.X) =>
         LET n == IF f = 0 THEN Len(t) ELSE f - 1
             r == AddChars(Deref(p), scr, SubSeq(t, 1, n), 1)
         IN  /\ scr' = r.scr
             /\ ret' = IF f = 0 THEN OK ELSE ERR]_vars

(* C13, as the code has it: wprintw of a rendered text that with its
   terminator needs more than rows*cols characters returns ERR, writes no
   cell and moves no cursor; a text of at most rows*cols - 1 characters is
   never rejected: the call returns OK and its first character is put
   through waddch. *)
C13_OverflowRejected ==
  [][\A p \in WindowPtrs, t \in Texts : \A f \in 0 .. Len(t) :
       wprintw(p, t, f) =>
         IF Len(t) + 1 > win.size.Y * win.size.X
         THEN ret' = ERR /\ scr' = scr /\ win' = win /\ held' = held
         ELSE /\ ret' = OK
              /\ (Len(t) >= 1 /\ f # 1) => Deref(p).cur # IF p = "stdscr" THEN win'.cur ELSE held'.cur]_vars

C13_Witness ==
  /\ lastOp = "wprintw" /\ ret = ERR /\ nops = 2
  /\ win.size = [X |-> 2, Y |-> 1]
  /\ win.cur = [X |-> 1, Y |-> 0]
  /\ Back[<<0, 0>>].ch = 97 /\ Back[<<0, 1>>].ch = WC_BGND

(* C13, as stated: a rendered text of up to rows*cols characters fits the
   temporary and is not rejected for its length. *)
C13_FittingTextAccepted ==
  [][\A p \in WindowPtrs, t \in Texts : \A f \in 0 .. Len(t) :
       wprintw(p, t, f) =>
         IF Len(t) > win.size.Y * win.size.X
         THEN ret' = ERR /\ scr' = scr /\ win' = win /\ held' = held
         ELSE ret' = OK]_vars

(* C14: for stdscr and for a window the caller holds, when mvwprintw on
   the window returns ERR from its write step, that window's cursor is
   where it was before the call, and so is the other window's. *)
C14_FailedPrintRestoresCursor ==
  [][\A p \in WindowPtrs, c \in WinCoords, t \in Texts : \A f \in {0, Len(t)} :
       (mvwprintw(p, c[1], c[2], t, f) /\ ret' = ERR) =>
         win'.cur = win.cur /\ held'.cur = held.cur]_vars

(* C15: mvwprintw with a row or column outside the window returns ERR and
   leaves both buffers and the cursors as they were: nothing of the string
   is written anywhere. *)
C15_OutOfRangePrintRejected ==
  [][\A p \in WindowPtrs, c \in WinCoords, t \in Texts : \A f \in {0, Len(t)} :
       (mvwprintw(p, c[1], c[2], t, f) /\ ~InWindow(c[1], c[2])) =>
         ret' = ERR /\ scr' = scr /\ win'.cur = win.cur /\ held'.cur = held.cur]_vars

(* C16: with colours started, init_pair(0, f, b) fails and leaves the pair
   table; init_pair(p, f, b) with 1 <= p < MAX_NUM_PAIRS succeeds and stores
   (f, b), and a pair_content of a pair so defined hands exactly its (f, b)
   to the caller; init_pair with p < 0 or p >= MAX_NUM_PAIRS fails and
   leaves the table. *)
C16_PairDefineAndQuery ==
  [][/\ \A p \in PairInputs, f \in ColorInputs :
          (init_pair(p, f, COLOR_BLACK) /\ BitAnd(flags, WC_COLOR) # 0) =>
            IF 1 <= p /\ p < MAX_NUM_PAIRS
            THEN ret' = OK /\ color_pairs'[p] = [f |-> f, b |-> COLOR_BLACK]
            ELSE ret' = ERR /\ color_pairs' = color_pairs
     /\ \A p \in PairInputs :
          (pair_content(p) /\ BitAnd(flags, WC_COLOR) # 0 /\ p \in DOMAIN color_pairs) =>
            /\ ret' = OK
            /\ [f |-> caller'.f, b |-> caller'.b] = color_pairs[p]]_vars

(* C17: once start_color has succeeded, entry 0 of the pair table is white
   on black, in that state and in every later one. *)
C17_PairZeroIsDefault ==
  BitAnd(flags, WC_COLOR) # 0 => PairAt(0) = [f |-> COLOR_WHITE, b |-> COLOR_BLACK]

(* C18: for every pair number p with 0 <= p < MAX_NUM_PAIRS, 32..63
   included, PAIR_NUMBER of the word COLOR_PAIR(p) returned is p. *)
C18_PairNumberRoundTrip ==
  (/\ lastOp = "PAIR_NUMBER"
   /\ caller.pair \in 0 .. MAX_NUM_PAIRS - 1
   /\ caller.word = COLOR_PAIR(caller.pair))
    => ret = caller.pair

(* C19: for a word built as style flags | COLOR_PAIR(p), 0 <= p <
   MAX_NUM_PAIRS, the style bits and the pair bits share no bit, and the
   index getattrs takes from the word into color_pairs is p: at least 0
   and below MAX_NUM_PAIRS. *)
C19_PairIndexInRange ==
  (lastOp = "attrset" /\ BitAnd(flags, WC_COLOR) # 0) =>
    /\ BitAnd(AllStyles, COLOR_PAIR(caller.pair)) = 0
    /\ PAIR_NUMBER(caller.word) = caller.pair
    /\ 0 <= PAIR_NUMBER(caller.word) /\ PAIR_NUMBER(caller.word) < MAX_NUM_PAIRS

(* C20: with stdscr's no-delay flag set a read never waits: inside wgetch
   its next step can always be taken; when no keystroke is waiting in the
   input buffer that step returns ERR and reads nothing; and every read
   returns. *)
C20_NoDelayReadReturns ==
  /\ []((pc = "wgetch" /\ NoDelaySet) => ENABLED wgetch_loop)
  /\ [][(wgetch_loop /\ NoDelaySet /\ ~KeystrokeWaiting) =>
          (pc' = "idle" /\ ret' = ERR /\ inq' = inq)]_vars
  /\ (pc = "wgetch" /\ NoDelaySet) ~> (pc = "idle")

C20_Witness ==
  /\ lastOp = "getch" /\ pc = "idle" /\ ret = ERR
  /\ win.flags[WC_NODELAY] = Set
  /\ Len(inq) = 2
  /\ inq[1].EventType # KEY_EVENT /\ ~inq[2].bKeyDown

(***************************************************************************)
(* Keypad translation.                                                     *)
(***************************************************************************)
(* A step of wgetch that consumes a key-down event and returns; the event
   is Head(inq) *)
ReadReturns == pc = "wgetch" /\ pc' = "idle" /\ inq # <<>> /\ inq' = Tail(inq)

ArrowCodes ==
  (VK_LEFT :> KEY_LEFT) @@ (VK_UP :> KEY_UP) @@ (VK_RIGHT :> KEY_RIGHT) @@ (VK_DOWN :> KEY_DOWN)

NumpadCodes ==
  (VK_NUMPAD1 :> KEY_C1) @@ (VK_NUMPAD2 :> KEY_DOWN) @@ (VK_NUMPAD3 :> KEY_C3) @@
  (VK_NUMPAD4 :> KEY_LEFT) @@ (VK_NUMPAD5 :> KEY_B2) @@ (VK_NUMPAD6 :> KEY_RIGHT) @@
  (VK_NUMPAD7 :> KEY_A1) @@ (VK_NUMPAD8 :> KEY_UP) @@ (VK_NUMPAD9 :> KEY_A3)

FunctionKeyCodes == [vk \in VK_F1 .. VK_F24 |-> KEY_F(vk - VK_F1 + 1)]

CommandKeyCodes ==
  (VK_ESCAPE :> KEY_EXIT) @@ (VK_CANCEL :> KEY_CANCEL) @@ (VK_BACK :> KEY_BACKSPACE) @@
  (VK_CLEAR :> KEY_CLEAR) @@ (VK_RETURN :> KEY_ENTER) @@ (VK_CONTROL :> KEY_COMMAND) @@
  (VK_SELECT :> KEY_SELECT) @@ (VK_PRINT :> KEY_PRINT) @@ (VK_HELP :> KEY_HELP)

EditingKeyCodes ==
  (VK_INSERT :> KEY_IC) @@ (VK_DELETE :> KEY_DC) @@ (VK_HOME :> KEY_HOME) @@
  (VK_END :> KEY_END) @@ (VK_PRIOR :> KEY_PPAGE) @@ (VK_NEXT :> KEY_NPAGE)

DocumentedCodes == ArrowCodes @@ NumpadCodes @@ FunctionKeyCodes @@ CommandKeyCodes

(* C21: a read that consumes a key-down event on a window whose keypad flag
   is set returns the documented portable code of an arrow key, a numeric
   keypad key 1..9, a function key F1..F24 or a named command key; for a key
   outside the translated set (a letter, a modifier), and for every key when
   the keypad flag is clear, it returns the event's raw character.  (The six
   editing keys are the subject of C22.) *)
C21_KeypadTranslation ==
  [][ReadReturns =>
       LET c == Head(inq)
       IN  /\ win'.flags[WC_WKEYPAD] \in {Set, Clear}
           /\ (win'.flags[WC_WKEYPAD] = Set /\ c.vk \in DOMAIN DocumentedCodes
                  => ret' = DocumentedCodes[c.vk])
           /\ (win'.flags[WC_WKEYPAD] = Set /\ c.vk \notin DOMAIN DocumentedCodes
                                           /\ c.vk \notin DOMAIN EditingKeyCodes
                  => ret' = c.ch)
           /\ (win'.flags[WC_WKEYPAD] = Clear => ret' = c.ch)]_vars

(* F24 was read with the keypad flag set by keypad(stdscr, TRUE) *)
C21_Witness ==
  /\ lastOp = "getch" /\ pc = "idle"
  /\ win.flags[WC_WKEYPAD] = Set
  /\ ret = KEY_F(24)

(* A letter was read with the keypad flag set, and a numeric keypad key
   with the flag clear: both give the raw character *)
C21_RawWitness ==
  /\ lastOp = "getch" /\ pc = "idle"
  /\ \/ win.flags[WC_WKEYPAD] = Set /\ ret = 97
     \/ win.flags[WC_WKEYPAD] = Clear /\ ret = KeyChar(VK_NUMPAD1)

(* C22: with the keypad flag set, a read of an editing key returns its
   portable code: insert KEY_IC, delete KEY_DC, home KEY_HOME, end KEY_END,
   page-up KEY_PPAGE, page-down KEY_NPAGE; none returns the raw character. *)
C22_EditingKeysTranslated ==
  [][ReadReturns /\ win'.flags[WC_WKEYPAD] = Set /\ Head(inq).vk \in DOMAIN EditingKeyCodes
       => ret' = EditingKeyCodes[Head(inq).vk]]_vars

(* The same for the five editing keys the switch has a case for *)
C22_AllButInsert ==
  [][ReadReturns /\ win'.flags[WC_WKEYPAD] = Set
                 /\ Head(inq).vk \in DOMAIN EditingKeyCodes \ {VK_INSERT}
       => ret' = EditingKeyCodes[Head(inq).vk]]_vars

(***************************************************************************)
(* Echo.                                                                   *)
(***************************************************************************)
EchoOn == BitAnd(flags, WC_ECHO) # 0

(* Windows a and b differ at most in their flag words, which a read may
   find set or clear where initscr left them undefined *)
SameButFlags(a, b) == [a EXCEPT !.flags = b.flags] = b

NothingWritten == scr' = scr /\ win'.cur = win.cur /\ held'.cur = held.cur

(* C23: a read that consumes a key-down event with the echo flag set does
   to stdscr and its back buffer what one waddch(stdscr, raw character)
   does, and leaves the window it was issued on alone if that is another
   one; an iteration that returns without a key, or discards an event,
   writes nothing; with the echo flag clear no step of a read changes a
   buffer cell or a cursor. *)
C23_EchoWritesOnceToStdscr ==
  [][/\ ReadReturns /\ EchoOn =>
          \E ok \in BOOLEAN :
            LET e == waddch(win, scr, Head(inq).ch, ok)
            IN  /\ SameButFlags(e.win, win')
                /\ scr' = e.scr
                /\ SameButFlags(held, held')
     /\ pc = "wgetch" /\ ~ReadReturns => NothingWritten
     /\ pc = "wgetch" /\ ~EchoOn => NothingWritten]_vars

(* A read issued on the caller's window has echoed the letter into the
   back buffer of stdscr *)
C23_Witness ==
  /\ lastOp = "wgetch" /\ caller.rwin = "held" /\ pc = "idle"
  /\ EchoOn
  /\ ret = 97
  /\ \E q \in DOMAIN Back : Back[q].ch = 97
  /\ held.cur = [X |-> 0, Y |-> 0]

(* A read has returned the letter with the echo off *)
C23_SilentWitness ==
  /\ lastOp = "wgetch" /\ pc = "idle"
  /\ ~EchoOn
  /\ ret = 97
  /\ \A q \in DOMAIN Back : Back[q].ch # 97

(***************************************************************************)
(* Blocking reads.                                                         *)
(***************************************************************************)
NoDelayClear == win.flags[WC_NODELAY] = Clear

Reading == pc = "wgetch"

KeyDownQueued ==
  \E i \in 1 .. Len(inq) : inq[i].EventType = KEY_EVENT /\ inq[i].bKeyDown

(* A step of a read, not the arrival of an event, that finds the no-delay
   flag clear *)
BlockingStep == pc = "wgetch" /\ win'.flags[WC_NODELAY] = Clear /\ Len(inq') <= Len(inq)

(* C24: a read that finds the no-delay flag clear takes the events of the
   input buffer one at a time from the front; an event that is no key event
   or a key-up event is removed and the read goes on; the first key-down
   event is removed, the read returns and its result is that event's
   character or key code; the events behind stay queued in their order; a
   blocking read with a key-down event in the buffer eventually returns. *)
C24_BlockingRead ==
  /\ [][BlockingStep =>
          /\ inq # <<>>
          /\ inq' = Tail(inq)
          /\ LET c == Head(inq)
             IN  IF c.EventType = KEY_EVENT /\ c.bKeyDown
                 THEN /\ pc' = "idle"
                      /\ ret' = IF win'.flags[WC_WKEYPAD] = Set THEN KeyCode(c) ELSE c.ch
                 ELSE /\ pc' = "wgetch"
                      /\ ret' = ret]_vars
  /\ ((Reading /\ NoDelayClear /\ KeyDownQueued) ~> (pc = "idle"))

(* A blocking read has returned the letter and left an event queued *)
C24_Witness ==
  /\ lastOp = "getch" /\ pc = "idle"
  /\ NoDelayClear
  /\ ret = 97
  /\ inq # <<>>

(***************************************************************************)
(* Colour scenarios.                                                       *)
(***************************************************************************)
ColorEnabled == BitAnd(flags, WC_COLOR) # 0

BackgroundBits == 16 * (FOREGROUND_RED + FOREGROUND_GREEN + FOREGROUND_BLUE)

(* The style of stdscr has just been set to COLOR_PAIR(1), with colours
   started and pair 1 defined as red on black before *)
PairOneStyleSet ==
  /\ lastOp = "attrset"
  /\ ColorEnabled
  /\ 1 \in DOMAIN color_pairs
  /\ color_pairs[1] = [f |-> COLOR_RED, b |-> COLOR_BLACK]
  /\ caller.word = COLOR_PAIR(1)

(* C25: after start_color, init_pair(1, COLOR_RED, COLOR_BLACK) and
   attrset(COLOR_PAIR(1)), a successful addch('X') at a cursor inside the
   window stores a cell whose
   attributes are the resolution of a word that decodes to pair 1 and whose
   colour bits are red on black: foreground red set, foreground green and
   blue clear, no background bit set. *)
C25_RedOnBlackCell ==
  [][PairOneStyleSet /\ InWindow(win.cur.Y, win.cur.X) /\ StepIs("addch") /\ ret' = OK =>
       LET cell == scr'[win.bbuf].cell[<<win.cur.Y, win.cur.X>>]
       IN  /\ cell.ch = ScenarioChar
           /\ PAIR_NUMBER(caller.word) = 1
           /\ cell.attr = getattrs(caller.word)
           /\ BitAnd(cell.attr, FOREGROUND_RED) # 0
           /\ BitAnd(cell.attr, FOREGROUND_GREEN) = 0
           /\ BitAnd(cell.attr, FOREGROUND_BLUE) = 0
           /\ BitAnd(cell.attr, BackgroundBits) = 0]_vars

(* The five calls of the scenario have been made and the cell is red *)
C25_Witness ==
  /\ lastOp = "addch" /\ ret = OK /\ nops = MaxOps
  /\ ColorEnabled
  /\ caller.word = COLOR_PAIR(1)
  /\ Back[<<0, 0>>] = [ch |-> ScenarioChar, attr |-> FOREGROUND_RED]

(* The number of bits set in a word that is not negative *)
RECURSIVE PopCount(_)
PopCount(n) == IF n = 0 THEN 0 ELSE (n % 2) + PopCount(n \div 2)

ForegroundBits == FOREGROUND_RED + FOREGROUND_GREEN + FOREGROUND_BLUE

(* The style flags of an attribute word: the nine of attr_t, bits 0..8 *)
StyleFlags(word) == BitAnd(word, AllStyles)

(* The bits of a backend mask that are not colour bits *)
StyleBits(mask) == BitClear(mask, ForegroundBits + BackgroundBits)

(* C26: the mask resolved from an attribute word has one backend bit for
   each of the nine style flags set in the word and none for a flag that
   is clear. *)
C26_OneBitPerStyleFlag ==
  lastOp = "attrset" => PopCount(StyleBits(win.attrs)) = PopCount(StyleFlags(caller.word))

(* What holds of the resolved mask: a backend bit for bold, reverse,
   standout and underline exactly when the flag is set; colour bits only
   with colours enabled and no palette reprogramming, and then, for a pair
   inside the table, the red, green and blue bit of the foreground
   (background) exactly when that component of the pair's foreground
   (background) colour is not zero. *)
C26_FourFlagsAndColorBits ==
  lastOp = "attrset" =>
    LET word == caller.word
        mask == win.attrs
        pair == PairAt(PAIR_NUMBER(word))
        Has(m, b) == BitAnd(m, b) # 0
    IN  /\ Has(mask, FOREGROUND_INTENSITY) <=> Has(word, A_BOLD)
        /\ Has(mask, COMMON_LVB_REVERSE_VIDEO) <=> Has(word, A_REVERSE)
        /\ Has(mask, BACKGROUND_INTENSITY) <=> Has(word, A_STANDOUT)
        /\ Has(mask, COMMON_LVB_UNDERSCORE) <=> Has(word, A_UNDERLINE)
        /\ ~(ColorEnabled /\ CAN_CHANGE_COLOR = 0) => BitAnd(mask, ForegroundBits + BackgroundBits) = 0
        /\ ColorEnabled /\ CAN_CHANGE_COLOR = 0 /\ ReadsInBounds(word) =>
             /\ Has(mask, FOREGROUND_RED) <=> ColorAt(pair.f).r # 0
             /\ Has(mask, FOREGROUND_GREEN) <=> ColorAt(pair.f).g # 0
             /\ Has(mask, FOREGROUND_BLUE) <=> ColorAt(pair.f).b # 0
             /\ Has(mask, 16 * FOREGROUND_RED) <=> ColorAt(pair.b).r # 0
             /\ Has(mask, 16 * FOREGROUND_GREEN) <=> ColorAt(pair.b).g # 0
             /\ Has(mask, 16 * FOREGROUND_BLUE) <=> ColorAt(pair.b).b # 0

(* C27: a start_color that succeeds sets the colour flag, gives the eight
   basic colours their canonical components and leaves the style of stdscr
   as pair 0 resolved to white on black, so that a successful addch right
   after it stores a cell with the three foreground colour bits set and no
   background colour bit. *)
C27_StartColorDefaults ==
  [][/\ StepIs("start_color") /\ ret' = OK =>
          /\ BitAnd(flags', WC_COLOR) # 0
          /\ colors' = BasicColors
          /\ win'.attrs = ForegroundBits
     /\ lastOp = "start_color" /\ ret = OK /\ InWindow(win.cur.Y, win.cur.X)
                               /\ StepIs("addch") /\ ret' = OK =>
          LET cell == scr'[win.bbuf].cell[<<win.cur.Y, win.cur.X>>]
          IN  /\ BitAnd(cell.attr, ForegroundBits) = ForegroundBits
              /\ BitAnd(cell.attr, BackgroundBits) = 0]_vars

(* The part that holds: the flag and the colour table *)
C27_FlagAndColors ==
  [][StepIs("start_color") /\ ret' = OK =>
       /\ BitAnd(flags', WC_COLOR) # 0
       /\ colors' = BasicColors]_vars

(* What the code does instead: the style of stdscr is left at 0, black on
   black, and the cell written next carries it *)
C27_StyleLeftBlack ==
  [][/\ StepIs("start_color") /\ ret' = OK => win'.attrs = 0
     /\ lastOp = "start_color" /\ ret = OK /\ InWindow(win.cur.Y, win.cur.X)
                               /\ StepIs("addch") /\ ret' = OK =>
          scr'[win.bbuf].cell[<<win.cur.Y, win.cur.X>>].attr = 0]_vars

(***************************************************************************)
(* Cursor visibility.                                                      *)
(***************************************************************************)
(* The cursor of visibility level v *)
ShapeFor(info, v) ==
  CASE v = 0 -> ~info.bVisible
    [] v = 1 -> info.bVisible /\ info.dwSize = cursize
    [] v = 2 -> info.bVisible /\ info.dwSize = HighVisibility

(* C28: once curs_set(level), level 0, 1 or 2, has run to its end, the two
   screen buffers of stdscr have the same cursor, the one of that level,
   and the buffer on display keeps it through every refresh that follows. *)
C28_BothBuffersSameCursor ==
  caller.level \in {0, 1, 2} =>
    /\ curinfo[0] = curinfo[1]
    /\ ShapeFor(curinfo[active], caller.level)

(* The same when both SetConsoleCursorInfo calls take effect: the buffers
   agree after the call, and a refresh of agreeing buffers shows the same
   cursor as before *)
C28_WhenBothSetsSucceed ==
  [][/\ \A v \in {0, 1, 2} :
          curs_set(v, TRUE, TRUE, TRUE) =>
            curinfo'[0] = curinfo'[1] /\ ShapeFor(curinfo'[active'], v)
     /\ StepIs("refresh") /\ curinfo[0] = curinfo[1] =>
          curinfo'[0] = curinfo'[1] /\ curinfo'[active'] = curinfo[active]]_vars

(* C29: a curs_set(b) that runs to its end after a curs_set(a) that did,
   with refreshes between them or none, returns a. *)
C29_ReturnsPreviousLevel ==
  [][\A v \in {0, 1, 2}, p \in BOOLEAN, b \in BOOLEAN :
       caller.level \in {0, 1, 2} /\ (p \/ b) /\ curs_set(v, TRUE, p, b)
         => ret' = caller.level]_vars

(* The same where the saved cursor size is not the full cell and the two
   buffers have the same cursor *)
C29_WhenSizeNotFull ==
  [][\A v \in {0, 1, 2}, p \in BOOLEAN, b \in BOOLEAN :
       (/\ caller.level \in {0, 1, 2} /\ (p \/ b) /\ curs_set(v, TRUE, p, b)
        /\ cursize # HighVisibility /\ curinfo[0] = curinfo[1]
        /\ ShapeFor(curinfo[0], caller.level))
         => ret' = caller.level]_vars

(* With the saved cursor size the full cell, level 2 is reported as 1 *)
C29_FullSizeReportsOne ==
  [][\A v \in {0, 1, 2} :
       (/\ caller.level = 2 /\ curs_set(v, TRUE, TRUE, TRUE)
        /\ cursize = HighVisibility /\ curinfo[0] = curinfo[1]
        /\ ShapeFor(curinfo[0], 2))
         => ret' = 1]_vars

(***************************************************************************)
(* Input modes.                                                            *)
(***************************************************************************)
LineInput == BitAnd(conmode, ENABLE_LINE_INPUT) # 0

ProcessedInput == BitAnd(conmode, ENABLE_PROCESSED_INPUT) # 0

(* C30: with the console's mode query and mode set succeeding, cbreak
   returns OK and leaves line input off and processed input on; raw returns
   OK and leaves both off; nocbreak and noraw return OK and leave both on;
   a call whose first mode query fails returns ERR. *)
C30_InputModes ==
  [][/\ cbreak(TRUE, TRUE, TRUE, TRUE) => ret' = OK /\ ~LineInput' /\ ProcessedInput'
     /\ raw(TRUE, TRUE, TRUE, TRUE) => ret' = OK /\ ~LineInput' /\ ~ProcessedInput'
     /\ nocbreak(TRUE, TRUE) => ret' = OK /\ LineInput' /\ ProcessedInput'
     /\ noraw(TRUE, TRUE) => ret' = OK /\ LineInput' /\ ProcessedInput'
     /\ \A s1 \in BOOLEAN, g2 \in BOOLEAN, s2 \in BOOLEAN :
          /\ cbreak(FALSE, s1, g2, s2) => ret' = ERR
          /\ raw(FALSE, s1, g2, s2) => ret' = ERR
          /\ nocbreak(FALSE, s1) => ret' = ERR
          /\ noraw(FALSE, s1) => ret' = ERR]_vars

(* The part that holds: raw, and the error value when the console cannot
   report or set its mode *)
C30_RawAndErrors ==
  [][/\ raw(TRUE, TRUE, TRUE, TRUE) => ret' = OK /\ ~LineInput' /\ ~ProcessedInput'
     /\ \A g1 \in BOOLEAN, s1 \in BOOLEAN, g2 \in BOOLEAN, s2 \in BOOLEAN :
          /\ ~(g1 /\ s1 /\ g2 /\ s2) => (cbreak(g1, s1, g2, s2) => ret' = ERR)
          /\ ~(g1 /\ s1 /\ g2 /\ s2) => (raw(g1, s1, g2, s2) => ret' = ERR)
          /\ ~(g1 /\ s1) => (nocbreak(g1, s1) => ret' = ERR)
          /\ ~(g1 /\ s1) => (noraw(g1, s1) => ret' = ERR)]_vars

(* What the code does on a console that never fails: cbreak, nocbreak and
   noraw return ERR and set no mode bit *)
C30_SetmodeAlwaysFails ==
  [][/\ cbreak(TRUE, TRUE, TRUE, TRUE) => ret' = ERR /\ ~LineInput' /\ ProcessedInput' = ProcessedInput
     /\ nocbreak(TRUE, TRUE) => ret' = ERR /\ conmode' = conmode
     /\ noraw(TRUE, TRUE) => ret' = ERR /\ conmode' = conmode]_vars

(***************************************************************************)
(* Teardown.                                                               *)
(***************************************************************************)
Ended == pc = "ended"

(* C31: after endwin the console displays the screen buffer it displayed
   before initscr, and each of the window's two screen buffers has been
   released exactly once; before endwin neither has been released. *)
C31_TeardownRestoresDisplay ==
  /\ Ended => active = hstdout /\ closed = [h \in {0, 1} |-> 1]
  /\ ~Ended => closed = [h \in {0, 1} |-> 0]

(* endwin has run after a refresh swapped the buffers and colours were
   started *)
C31_Witness ==
  /\ Ended /\ lastOp = "endwin"
  /\ win.prim = 1
  /\ BitAnd(flags, WC_COLOR) # 0
  /\ active = hstdout

(* C32: after endwin the console's input mode is the one it had before
   initscr. *)
C32_InputModeRestored == Ended => conmode = startmode

(* What the code does: the mode initscr cleared stays cleared *)
C32_ModeStaysCleared == Ended => conmode = 0 /\ startmode = CookedMode

(***************************************************************************)
(* Start-up.                                                               *)
(***************************************************************************)
(* What initscr leaves when it returns, for the reported viewport v *)
InitPost(v) ==
  /\ pc = "idle" /\ ret = OK
  /\ win.rect = v
  /\ win.size.Y = v.Bottom - v.Top + 1
  /\ win.size.X = v.Right - v.Left + 1
  /\ win.cur = [X |-> 0, Y |-> 0]
  /\ win.prim = 0 /\ win.bbuf = 1
  /\ DOMAIN scr = {0, 1}
  /\ \A h \in {0, 1} :
        /\ scr[h].dwSize = win.size
        /\ DOMAIN scr[h].cell = (0 .. win.size.Y - 1) \X (0 .. win.size.X - 1)
        /\ \A p \in DOMAIN scr[h].cell : scr[h].cell[p].ch = WC_BGND
  /\ BitAnd(win.attrs, ForegroundBits) = ForegroundBits
  /\ BitAnd(win.attrs, BackgroundBits) = 0
  /\ active = win.prim

(* The process is over and no window was returned *)
Exited == pc = "exited" /\ win = NoWindow /\ active = hstdout

(* C33: when initscr returns, the window has the reported viewport's size
   (rows = bottom-top+1, cols = right-left+1), the cursor at (0,0), primary
   index 0 and back index 1, two buffers of that size filled with blanks,
   the style red|green|blue foreground with no background bit, and the
   primary buffer displayed; when any backend call it tests fails (the
   viewport query and either buffer creation among them), the process ends
   and no window is returned. *)
C33_InitPostcondition ==
  [][\A v \in Viewports, f \in {NoFailure} \cup (1 .. Len(InitSteps)) :
       initscr_call(v, f) => IF f = NoFailure THEN InitPost(v)' ELSE Exited']_vars

(* initscr has returned for a viewport away from the origin with more than
   one row *)
C33_Witness ==
  /\ pc = "idle" /\ lastOp = "initscr"
  /\ win.rect.Top = 1 /\ win.rect.Bottom = 2
  /\ win.size.Y = 2 /\ active = 0

(* initscr has ended the process because the second buffer could not be
   created *)
C33_ExitWitness == pc = "exited" /\ lastOp = "initscr" /\ conmode = CookedMode

(***************************************************************************)
(* The two buffers.                                                        *)
(***************************************************************************)
(* C34: after any sequence of writes, moves and refreshes the console
   displays the buffer at the primary index and waddch writes the buffer at
   the back index, which is never the displayed one: a write leaves every
   cell of the displayed buffer as it was. *)
C34_DisplayedIsNeverWritten ==
  /\ [](/\ active = win.prim
        /\ WriteTarget(win) = win.bbuf
        /\ active # WriteTarget(win))
  /\ [][\A ch \in AddchInputs, ok \in BOOLEAN :
          addch(ch, ok) => /\ scr'[active].cell = scr[active].cell
                           /\ active' = active]_vars

(* A character was written after a refresh had swapped the buffers: it is
   in buffer 0, and buffer 1 is displayed without it *)
C34_Witness ==
  /\ lastOp = "addch" /\ ret = OK
  /\ win.prim = 1 /\ active = 1
  /\ scr[0].cell[<<0, 0>>].ch = 97
  /\ scr[1].cell[<<0, 0>>].ch = WC_BGND

(***************************************************************************)
(* The value of a read.                                                    *)
(***************************************************************************)
(* The read consumes a key-down event and returns *)
ReadsKeyDown == ReadReturns /\ IsKeyDown(Head(inq))

(* C35: a read that consumes a key-down event returns a value other than
   ERR, whatever the key, its character and the keypad setting. *)
C35_KeyReadIsNeverERR == [][ReadsKeyDown => ret' # ERR]_vars

(* What the code does: ERR comes back for a key-down exactly when the
   value computed for it is 0, the character of a key that has none *)
C35_ERRForCharacterlessKeys ==
  [][ReadsKeyDown /\ ret' = ERR => Head(inq).ch = 0 /\ ERR = 0]_vars

(***************************************************************************)
(* The window's flags after initscr.                                       *)
(***************************************************************************)
(* The read in progress is the first call made after initscr *)
FirstRead == pc = "wgetch" /\ lastOp = "getch" /\ nops = 1

(* C36: after initscr the keypad and no-delay flags of stdscr are clear,
   so the first read waits while there is no input and returns the raw
   character of the key it consumes. *)
C36_FirstReadBlocksUntranslated ==
  [][FirstRead =>
       /\ inq = <<>> => pc' = "wgetch"
       /\ ReadsKeyDown => ret' = Head(inq).ch]_vars

(* What the code does: the flags are never assigned by initscr, and the
   first read can return ERR at once with no input pending *)
C36_FirstReadMayReturnAtOnce ==
  /\ lastOp = "getch" /\ nops = 1 /\ pc = "idle"
  /\ inq = <<>> /\ ret = ERR
  /\ win.flags[WC_NODELAY] = Set

(***************************************************************************)
(* The colours of a pair.                                                  *)
(***************************************************************************)
ColorNumbers == 0 .. NUM_COLORS - 1

(* C37: every entry of the pair table holds a foreground and a background
   within [0, NUM_COLORS), so getattrs reads colors[] inside its bounds for
   every attribute word whose pair number is a valid index. *)
C37_PairColorsInRange ==
  \A p \in 0 .. MAX_NUM_PAIRS - 1 :
     /\ PairAt(p).f \in ColorNumbers
     /\ PairAt(p).b \in ColorNumbers
     /\ PAIR_NUMBER(COLOR_PAIR(p)) = p => ReadsInBounds(COLOR_PAIR(p))

(* What the code does: init_pair checks the pair number and stores the two
   colours it is given, whatever they are *)
C37_StoresWhatItIsGiven ==
  [][\A p \in PairInputs, f \in ColorInputs \cup OutOfRangeColors,
        b \in {COLOR_BLACK} \cup OutOfRangeColors :
        (init_pair(p, f, b) /\ ret' = OK) => PairAt(p)' = [f |-> f, b |-> b]]_vars

(***************************************************************************)
(* Enabling a pair on a style that has colour bits.                        *)
(***************************************************************************)
(* The colour bits of a backend mask *)
ColorBitsOf(bmask) == BitAnd(bmask, ForegroundBits + BackgroundBits)

(* The pair has been defined with a foreground other than black *)
PairDefined(p) == ColorEnabled /\ PairAt(p).f # COLOR_BLACK

(* C38: attron(COLOR_PAIR(p)) leaves the window with exactly pair p's
   colour bits, whatever colour bits the style had before (the grey default
   or another pair's), and attrset(a) leaves the style exactly
   getattrs(a). *)
C38_EnablingAPairReplacesColor ==
  [][/\ \A p \in EnablePairs :
          (PairDefined(p) /\ win.attrs # 0 /\ attron(COLOR_PAIR(p))) =>
             ColorBitsOf(win'.attrs) = ColorBitsOf(getattrs(COLOR_PAIR(p)))
     /\ \A a \in EnableWords : attrset(a) => win'.attrs = getattrs(a)]_vars

(* What the code does: attron ors the resolved mask into the style, so the
   colour bits already there stay; attrset replaces the style *)
C38_AttronOrsAttrsetReplaces ==
  [][/\ \A a \in EnableWords :
          attron(a) => win'.attrs = BitOr(win.attrs, getattrs(a))
     /\ \A a \in EnableWords : attrset(a) => win'.attrs = getattrs(a)]_vars

(* Pair 2 (green) was enabled after pair 1 (red): the style is yellow *)
C38_MixedColors ==
  /\ lastOp = "attron" /\ ColorEnabled
  /\ PairAt(1) = [f |-> COLOR_RED, b |-> COLOR_BLACK]
  /\ PairAt(2) = [f |-> COLOR_GREEN, b |-> COLOR_BLACK]
  /\ win.attrs = FOREGROUND_RED + FOREGROUND_GREEN

(***************************************************************************)
(* The error result of curs_set.                                           *)
(***************************************************************************)
(* The call fails before it sets a cursor: the query fails or the level is
   none of 0, 1, 2 *)
Rejected(v, okGet) == ~okGet \/ v \notin {0, 1, 2}

(* C39: a curs_set call with a level outside {0,1,2}, or whose cursor
   query fails, changes neither buffer's cursor and returns ERR, and ERR is
   a value no successful call returns. *)
C39_ErrorIsDistinguishable ==
  [][\A v \in 0 .. 3, g \in BOOLEAN, p \in BOOLEAN, b \in BOOLEAN :
       curs_set(v, g, p, b) =>
         IF Rejected(v, g) THEN curinfo' = curinfo /\ ret' = ERR
         ELSE (p \/ b) => ret' # ERR]_vars

(* What the code does: a rejected call changes no cursor and returns ERR;
   a successful call returns the previous level, 0 for a hidden cursor,
   and ERR is 0 *)
C39_RejectedChangesNothing ==
  [][\A v \in 0 .. 3, g \in BOOLEAN, p \in BOOLEAN, b \in BOOLEAN :
       curs_set(v, g, p, b) =>
         IF Rejected(v, g) THEN curinfo' = curinfo /\ ret' = ERR
         ELSE (p \/ b) => (ret' = ERR) = ~curinfo[win.prim].bVisible]_vars

(* A successful call has returned ERR: the cursor was hidden before it *)
C39_SuccessLooksLikeError ==
  /\ lastOp = "curs_set" /\ ret = ERR
  /\ caller.level = 1
  /\ curinfo[0].bVisible /\ curinfo[1].bVisible

(***************************************************************************)
(* Temporary buffers.                                                      *)
(***************************************************************************)
(* The call being made is one of the formatted writes *)
FormattedWrite == nops' # nops /\ lastOp' \in {"printw", "mvprintw", "wprintw", "mvwprintw"}

(* C40: every temporary buffer a call allocates is freed before the call
   returns, with OK or with ERR: after any sequence of refreshes and
   formatted writes no temporary buffer is outstanding. *)
C40_NoTemporaryOutstanding == temps = 0

(* What the code does: refresh frees its buffer; each formatted write
   leaves the one it allocated, whether it returns OK or ERR *)
C40_FormattedWriteLeavesOne ==
  [][temps' = temps + (IF FormattedWrite THEN 1 ELSE 0)]_vars

(* A formatted write that failed for want of room left its buffer behind *)
C40_LeakOnOverflow == lastOp = "printw" /\ ret = ERR /\ temps = 1 /\ nops = 1

====
